---- MODULE Spec2Model ----
(***************************************************************************)
(* Plan It Ahead, client side: the Search page's pending-item store and    *)
(* checkout (Search.tsx), the flight-based itinerary creation              *)
(* (CreateItinerary.tsx) and the chat poller (Chat.tsx).                   *)
(*                                                                         *)
(* Conventions.  A JavaScript value that is falsy (undefined, null, 0, '') *)
(* is 0 for numbers, "" for strings and <<>> for character sequences: the  *)
(* code tests these fields with || and ?: only.  A calendar date is a day  *)
(* number (0: the empty string).  A localStorage value is a text: a        *)
(* sequence of tokens; the absent key (getItem returns null) is Null.      *)
(***************************************************************************)
EXTENDS Integers, Sequences, FiniteSets, TLC

VARIABLES
  page,                \* the route that is mounted
  navigation,          \* the route a handler's navigate() asked for, "" if none
  uncaught,            \* the exception that escaped a handler, "none" if none did
  localStorage,        \* the browser's persistent key-value store
  server,              \* the backend: the itineraries it holds, the last id it gave
  \* the Search component's state (useState), at its defaults while unmounted
  searchType, pendingItems, currentItinerary, selectedItineraryId,
  itineraries, selectedItem, adding, checkIn, checkOut, error, successMessage,
  query, results, loading, \* the search box, the result list, the spinner
  loadPending,         \* the mount effect's loadItineraries request is in flight
  successTimer,        \* removePendingItem's 3 s timer is pending
  calls,               \* handleSaveAllToItinerary / handleAddToItinerary invocations
                       \* suspended at an await
  searchCalls,         \* handleSearch invocations suspended at their await
  searchTimers,        \* switchSearchType's zero-delay timers that have not fired yet
  \* the Chat component
  selectedConversation, \* the :id of the route, 0 if none
  messages,            \* useState<Message[]>
  lastUpdater,         \* the return statement the last setMessages updater took
  chatNet,             \* loadMessages / sendMessage invocations suspended at an await
  timeouts,            \* the poll effect's zero-delay timers that have not fired yet
  serverMessages,      \* the backend: the messages of each conversation, oldest first
  \* the AuthProvider
  user,                \* useState<User | null>: the user_id, 0 for null
  authLoading,         \* the provider's loading
  authNet,             \* the /auth/me and /auth/login requests in flight
  \* the MyItineraries component: its state and its suspended handleDelete
  myItineraries,
  \* the ItineraryBuilder component: its :id, its state, its requests in flight
  builder,
  routeId              \* the :id of the /itineraries/:id a navigate() asked for

searchVars == <<searchType, pendingItems, currentItinerary, selectedItineraryId,
                itineraries, selectedItem, adding, checkIn, checkOut, error,
                successMessage, loadPending, successTimer, query, results, loading>>
resultVars == <<query, results, loading>>
searchNet == <<searchCalls, searchTimers>>
cartVars == <<page, navigation, uncaught, localStorage, server, searchVars, calls,
              searchNet>>
chatVars == <<selectedConversation, messages, lastUpdater, chatNet, timeouts, serverMessages>>
appVars == <<user, authLoading, authNet, myItineraries, builder, routeId>>
vars == <<cartVars, chatVars, appVars>>

----------------------------------------------------------------------------
(* Bounds of the model *)

MaxPending == 2      \* longest pending list an add may extend
MaxDay == 4          \* calendar days 1..MaxDay
MaxItineraries == 2  \* itinerary ids 1..MaxItineraries the backend hands out
MaxCalls == 1        \* checkout invocations in flight at once
MaxConversations == 2 \* conversation ids 1..MaxConversations
MaxMessages == 3     \* messages the backend stores, all conversations together
MaxRequests == 2     \* chat requests in flight at once
MaxSearches == 2     \* searches in flight at once
MaxTimers == 1       \* auto-search timers pending at once
MaxUsers == 4        \* accounts that can sign in
MaxCheckouts == 2    \* checkouts in flight together where the buttons are modelled

Days == 0..MaxDay
ItineraryIds == 1..MaxItineraries
Conversations == 1..MaxConversations
RequestSlots == 1..MaxRequests
SearchSlots == 1..MaxSearches

----------------------------------------------------------------------------
(* Values *)

Null == <<>>

\* SearchResult: a name, a key or an id is a sequence of character codes, an
\* image or an address a string, a price or a rating a number
NoData == [name |-> <<>>, title |-> <<>>, hotel_key |-> <<>>, hotel_id |-> <<>>,
           id |-> <<>>, price |-> 0, price_per_night |-> 0, estimated_cost |-> 0,
           rating |-> 0, address |-> "", image_url |-> "", image |-> "",
           thumbnail |-> "", photo |-> ""]
NoItem == [type |-> "", data |-> NoData]
NoItinerary == [itinerary_id |-> 0, title |-> "", destination |-> "",
                departure_date |-> 0, return_date |-> 0]
NoSaved == [itinerary_id |-> 0, total |-> 0]

\* a chat message; sender_id 1 is the signed-in user, 2 the other party
NoMessage == [message_id |-> 0, sender_id |-> 0]
\* phase: "request" on its way to the backend, "response" on its way back;
\* stale: the component instance that awaits it is unmounted
IdleRequest == [phase |-> "idle", kind |-> "", conversation |-> 0, messages |-> <<>>,
                message |-> NoMessage, stale |-> FALSE]

\* Search results the provider can return: a priced hotel, an unpriced hotel,
\* a priced attraction (names are character codes).
HotelPriced == [NoData EXCEPT !.name = <<72, 49>>, !.price_per_night = 100]
HotelUnpriced == [NoData EXCEPT !.name = <<72, 50>>]
AttractionPriced == [NoData EXCEPT !.name = <<65, 49>>, !.price = 25]
AttractionUnpriced == [NoData EXCEPT !.name = <<65, 50>>]
SearchResults == {HotelPriced, HotelUnpriced, AttractionPriced}

\* 'Unknown', 'Unknown Hotel'
Unknown == <<85, 110, 107, 110, 111, 119, 110>>
UnknownHotel == Unknown \o <<32, 72, 111, 116, 101, 108>>

\* Entries of a provider's answer: an attraction that carries its name in title
\* and its picture in thumbnail; one with a photo; an entry with an address; a
\* hotel that carries its name in title and its picture in image_url; a rated
\* hotel with a picture in image
RawAttraction == [NoData EXCEPT !.title = <<65, 50>>, !.thumbnail = "thumbnail.jpg",
                                !.price = 25]
RawMuseum == [NoData EXCEPT !.name = <<77, 49>>, !.photo = "photo.jpg"]
RawWithAddress == [NoData EXCEPT !.name = <<72, 51>>, !.address = "1 Main St",
                                 !.image = "image.jpg"]
RawHotelTitled == [NoData EXCEPT !.title = <<72, 52>>, !.id = <<55>>,
                                 !.image_url = "image_url.jpg", !.price = 80]
RawHotelRated == [NoData EXCEPT !.name = <<72, 53>>, !.rating = 4, !.photo = "photo.jpg"]

\* Results without a price.  The hash of 'H2' is positive, that of 'abcdef'
\* wraps to a negative value, that of 'dpplaatu' to the least 32-bit integer.
\* TitledH2 has the identifier of HotelUnpriced, in title; KeyedH2 has its
\* name and an id; Anonymous has neither key nor name.
NegativeHash == [NoData EXCEPT !.name = <<97, 98, 99, 100, 101, 102>>]
MinHash == [NoData EXCEPT !.hotel_key = <<100, 112, 112, 108, 97, 97, 116, 117>>]
TitledH2 == [NoData EXCEPT !.title = <<72, 50>>, !.photo = "photo.jpg"]
KeyedH2 == [NoData EXCEPT !.name = <<72, 50>>, !.id = <<55>>]
Anonymous == [NoData EXCEPT !.rating = 4]
UnpricedResults == {HotelUnpriced, NegativeHash, MinHash, TitledH2, KeyedH2, Anonymous}
MinInt32 == -2147483647 - 1

AttractionLists == {<<>>, <<RawAttraction>>, <<HotelPriced>>, <<RawMuseum, RawWithAddress>>}
HotelLists == {<<>>, <<HotelPriced>>, <<RawHotelTitled, RawWithAddress>>, <<RawHotelRated>>}

\* response.data of a search: the expected array field holds list; the field is
\* missing; there is no data at all
SearchBodies(type) ==
  {[shape |-> "array", list |-> l] :
     l \in IF type = "attractions" THEN AttractionLists ELSE HotelLists}
  \cup {[shape |-> "noField", list |-> <<>>], [shape |-> "noData", list |-> <<>>]}

AllSearchBodies == SearchBodies("hotels") \cup SearchBodies("attractions")

\* what the user types into the search box
Queries == {"", " ", "Rome"}
\* destinations that match /^[A-Z]{3}$/i
IataCodes == {"JFK"}

\* the characters of the texts of the model
CharCodes(text) ==
  IF text = "" THEN <<>>
  ELSE IF text = " " THEN <<32>>
  ELSE IF text = "Paris" THEN <<80, 97, 114, 105, 115>>
  ELSE IF text = "PARIS" THEN <<80, 65, 82, 73, 83>>
  ELSE IF text = "Rome" THEN <<82, 111, 109, 101>>
  ELSE IF text = "JFK" THEN <<74, 70, 75>>
  ELSE IF text = "Trip to Paris" THEN <<84, 114, 105, 112, 32, 116, 111, 32, 80, 97, 114, 105, 115>>
  ELSE IF text = "Trip to JFK" THEN <<84, 114, 105, 112, 32, 116, 111, 32, 74, 70, 75>>
  ELSE IF text = "Honeymoon" THEN <<72, 111, 110, 101, 121, 109, 111, 111, 110>>
  ELSE IF text = "Itinerary 1" THEN <<73, 116, 105, 110, 101, 114, 97, 114, 121, 32, 49>>
  ELSE IF text = "Itinerary 2" THEN <<73, 116, 105, 110, 101, 114, 97, 114, 121, 32, 50>>
  ELSE IF text = "Itinerary 3" THEN <<73, 116, 105, 110, 101, 114, 97, 114, 121, 32, 51>>
  ELSE <<63>>

\* String.prototype.toLowerCase, on the letters A-Z
toLowerCase(text) ==
  [i \in 1..Len(text) |-> IF text[i] \in 65..90 THEN text[i] + 32 ELSE text[i]]

\* String.prototype.includes
includes(text, part) ==
  \E k \in 0..(Len(text) - Len(part)) : SubSeq(text, k + 1, k + Len(part)) = part

\* 'Trip to ', 'Itinerary '
TripTo == <<84, 114, 105, 112, 32, 116, 111, 32>>
ItineraryWord == <<73, 116, 105, 110, 101, 114, 97, 114, 121, 32>>

\* an entry of GET /itineraries: its title and its destination
Listed(title, destination) == [title |-> title, destination |-> destination]
NoListed == Listed(<<>>, <<>>)
TripToParis1 == Listed(TripTo \o <<80, 97, 114, 105, 115, 32, 49>>, <<>>)

\* A flight as CreateItinerary stores it
FlightData == [NoData EXCEPT !.name = <<70, 49>>, !.price = 200]

ServerMsgs == {"", "server says no"}

\* check-in and check-out dates entered on the Search page: none, a stay of one
\* night, the longest stay, check-out before check-in
StayDates == {<<0, 0>>, <<1, 2>>, <<1, MaxDay>>, <<MaxDay, 1>>}

\* dates entered before a search: none, a stay of one night
SearchDates == {<<0, 0>>, <<1, 2>>}

\* departure and return dates entered on the CreateItinerary page
TripDates == {<<1, MaxDay>>, <<MaxDay, MaxDay>>}
SaveResponses == {[total |-> 0], [total |-> 300]}

----------------------------------------------------------------------------
(* JSON.stringify / JSON.parse on the stored shapes: an array is written as *)
(* "[", one object token per element, "]"; an object as one object token.   *)

Tok(t, v) == [tok |-> t, val |-> v]

JSONstringifyArray(items) ==
  <<Tok("[", NoItem)>> \o [i \in 1..Len(items) |-> Tok("{}", items[i])] \o <<Tok("]", NoItem)>>

IsArrayText(text) ==
  /\ Len(text) >= 2
  /\ text[1].tok = "["
  /\ text[Len(text)].tok = "]"
  /\ \A i \in 2..(Len(text) - 1) : text[i].tok = "{}"

JSONparseArray(text) == [i \in 1..(Len(text) - 2) |-> text[i + 1].val]

JSONstringifyObject(obj) == <<Tok("{}", obj)>>
IsObjectText(text) == Len(text) = 1 /\ text[1].tok = "{}"
JSONparseObject(text) == text[1].val

\* Texts no JSON.parse accepts (a truncated array, a truncated object)
MalformedItems == <<Tok("[", NoItem)>>
MalformedItinerary == <<Tok("{", NoItinerary)>>

Ok(v) == [ok |-> TRUE, value |-> v]
Throws(v) == [ok |-> FALSE, value |-> v]

----------------------------------------------------------------------------
(* The pending-item store *)

getPendingItems(ls) ==
  LET stored == ls.planit_pending_items
  IN IF stored = Null THEN Ok(<<>>)
     ELSE IF IsArrayText(stored) THEN Ok(JSONparseArray(stored))
     ELSE Throws(<<>>)

addPendingItem(ls, item) ==
  [ls EXCEPT !.planit_pending_items =
     JSONstringifyArray(Append(getPendingItems(ls).value, item))]

clearPendingItems(ls) == [ls EXCEPT !.planit_pending_items = Null]

\* fault injection: the position is taken 1-based
spliceOneBased(items, index) ==
  IF index \in 1..Len(items)
  THEN SubSeq(items, 1, index - 1) \o SubSeq(items, index + 1, Len(items))
  ELSE items

\* items.splice(index, 1) with a 0-based index; out of range removes nothing
splice(items, index) ==
  IF index + 1 \in 1..Len(items)
  THEN SubSeq(items, 1, index) \o SubSeq(items, index + 2, Len(items))
  ELSE items

\* the storage part of removePendingItem
removePendingItemStore(ls, index) ==
  [ls EXCEPT !.planit_pending_items =
     JSONstringifyArray(splice(getPendingItems(ls).value, index))]

\* localStorage.getItem('planit_current_itinerary') parsed: Null reads as absent
getStoredItinerary(ls) ==
  LET stored == ls.planit_current_itinerary
  IN IF stored = Null THEN Ok(NoItinerary)
     ELSE IF IsObjectText(stored) THEN Ok(JSONparseObject(stored))
     ELSE Throws(NoItinerary)

----------------------------------------------------------------------------
(* Price normalization *)

MsPerDay == 86400000
FALLBACK_LOW == 100
FALLBACK_HIGH == 400

\* Math.round(n / d) for d > 0: the nearest integer, halves up
MathRound(n, d) == ((2 * n) + d) \div (2 * d)

\* fault injection: the difference is not clamped
computeNightsUnclamped(ci, co) ==
  IF ci = 0 \/ co = 0 THEN 1 ELSE co - ci

\* new Date(s).getTime() of a date-only string, in days since the epoch's
\* midnight; the difference of two such times is a whole number of days
computeNights(ci, co) ==
  IF ci = 0 \/ co = 0 THEN 1
  ELSE LET diff == MathRound((co - ci) * MsPerDay, MsPerDay)
       IN IF diff > 0 THEN diff ELSE 1

\* h = ((h << 5) + h) + c; h = h & h   on 32-bit two's complement, computed on
\* 16-bit halves
djb2Step(h, c) ==
  LET lo == h % 65536
      hi == (h - lo) \div 65536
      lo2 == 33 * lo + c
      hi2 == ((33 * hi) + (lo2 \div 65536)) % 65536
      sh == IF hi2 >= 32768 THEN hi2 - 65536 ELSE hi2
  IN (sh * 65536) + (lo2 % 65536)

RECURSIVE djb2(_, _)
djb2(h, str) == IF str = <<>> THEN h ELSE djb2(djb2Step(h, Head(str)), Tail(str))

\* fault injection: h % range of JavaScript, which has the sign of h
remainderOfSigned(h, range) ==
  IF h >= 0 THEN h % range ELSE 0 - ((((-(h + 1)) % range) + 1) % range)

\* Math.abs(h) % range without leaving 32 bits
AbsMod(h, range) ==
  IF h >= 0 THEN h % range ELSE (((-(h + 1)) % range) + 1) % range

OrElse(a, b) == IF a # 0 THEN a ELSE b

\* errorResponse.response?.data?.msg || fallback
errorText(msg, fallback) == IF msg # "" THEN msg ELSE fallback
OrText(a, b) == IF a # "" THEN a ELSE b
OrCodes(a, b) == IF a # <<>> THEN a ELSE b

\* String(n) of a natural number, as character codes
RECURSIVE Digits(_)
Digits(n) == IF n < 10 THEN <<48 + n>> ELSE Digits(n \div 10) \o <<48 + (n % 10)>>

\* JSON.stringify of a result that has no key and no name: what tells two such
\* texts apart is their numbers, written here between the braces
JSONstringifyResult(item) ==
  <<123>> \o Digits(item.price) \o <<44>> \o Digits(item.price_per_night) \o <<44>>
    \o Digits(item.estimated_cost) \o <<125>>

\* the string getFallbackPriceForItem hashes
fallbackKey(item) ==
  LET key == OrCodes(item.hotel_key, OrCodes(item.hotel_id, OrCodes(item.id,
               OrCodes(item.name, item.title))))
  IN IF key # <<>> THEN key ELSE JSONstringifyResult(item)

\* fault injection: the price depends on how many items are pending
fallbackPriceByPosition(item) == FALLBACK_LOW + Len(pendingItems)

getFallbackPriceForItem(item) ==
  LET range == FALLBACK_HIGH - FALLBACK_LOW + 1
  IN FALLBACK_LOW + AbsMod(djb2(5381, fallbackKey(item)), range)

\* fault injection: an address does not make an entry a hotel
isHotelLikeNoAddress(item) ==
  \/ item.hotel_id # <<>>
  \/ item.hotel_key # <<>>
  \/ item.price_per_night # 0
  \/ item.rating # 0

isHotelLike(item) ==
  \/ item.hotel_id # <<>>
  \/ item.hotel_key # <<>>
  \/ item.price_per_night # 0
  \/ item.rating # 0
  \/ item.address # ""

\* xid, description, best_time and duration_minutes are not modelled: nothing
\* read here depends on them
normalizeAttraction(item) ==
  [item EXCEPT !.image_url = OrText(item.image_url, OrText(item.image,
                                OrText(item.thumbnail, item.photo))),
               !.name = OrCodes(item.name, item.title),
               !.estimated_cost = OrElse(item.estimated_cost, item.price)]

\* fault injection: only the image field itself is read
normalizeHotelImageOnly(item) ==
  [item EXCEPT !.price_per_night = OrElse(item.price_per_night, item.price),
               !.hotel_id = OrCodes(item.hotel_id, OrCodes(item.id, item.hotel_key))]

normalizeHotel(item) ==
  [item EXCEPT !.image = OrText(item.image, OrText(item.thumbnail,
                            OrText(item.image_url, item.photo))),
               !.price_per_night = OrElse(item.price_per_night, item.price),
               !.hotel_id = OrCodes(item.hotel_id, OrCodes(item.id, item.hotel_key))]

\* the title of a hotel card
hotelCardTitle(item) == OrCodes(item.name, OrCodes(item.title, UnknownHotel))

\* raw.map(normalizeAttraction), rawHotels.map(normalizeHotel)
mapNormalizeAttraction(list) == [i \in 1..Len(list) |-> normalizeAttraction(list[i])]
mapNormalizeHotel(list) == [i \in 1..Len(list) |-> normalizeHotel(list[i])]

\* list.filter(it => !isHotelLike(it))
RECURSIVE notHotelLike(_)
notHotelLike(list) ==
  IF list = <<>> THEN <<>>
  ELSE IF isHotelLike(Head(list)) THEN notHotelLike(Tail(list))
  ELSE <<Head(list)>> \o notHotelLike(Tail(list))

----------------------------------------------------------------------------
(* Search page: state after construction *)

CallSlots == 1..MaxCalls
CheckoutSlots == 1..MaxCheckouts

NoPayload == [flights |-> <<>>, items |-> <<>>]

\* pc: the await the invocation is suspended at; pendingItems, itineraryCount: the
\* values of the render the handler closed over; stale: its component is unmounted
\* a handleSearch invocation suspended at its api.get; type: its activeType
\* order: the rank of the search among those in flight, 1 for the one issued
\* first; overtaken: a search issued after this one has been answered already
IdleSearch == [phase |-> "idle", type |-> "", stale |-> FALSE, order |-> 0,
               overtaken |-> FALSE]

IdleCall == [pc |-> "idle", stale |-> FALSE, pendingItems |-> <<>>, itineraryId |-> 0,
             stored |-> NoItinerary, itineraryCount |-> 0, payload |-> NoPayload,
             title |-> <<>>,
             \* handleAddToItinerary: the render it closed over and its request
             item |-> NoData, searchType |-> "hotels", checkIn |-> 0, checkOut |-> 0,
             item_type |-> "", estimated_cost |-> 0]

NoStorage == [planit_pending_items |-> Null, planit_current_itinerary |-> Null,
              planit_saved_data |-> Null, saved |-> [i \in ItineraryIds |-> Null],
              access_token |-> Null, user |-> Null]

\* the storage of a browser that is signed in as user 1 and holds nothing else
SignedInStorage == [NoStorage EXCEPT !.access_token = <<"token">>,
                                     !.user = JSONstringifyObject([user_id |-> 1])]

\* the accounts of the backend
Users == 1..MaxUsers

\* no request of the AuthProvider or of the Login page is in flight
IdleAuth == [me |-> "idle", login |-> "idle", loginError |-> ""]

\* MyItineraries: the useState defaults, no handleDelete suspended
IdleDelete == [pc |-> "idle", id |-> 0, stale |-> FALSE]
NoMyItineraries == [itineraries |-> {}, loading |-> TRUE, error |-> "", deletingId |-> 0,
                    loadPending |-> FALSE, deleteCall |-> IdleDelete]

\* ItineraryBuilder: the useState defaults.  saved stands for savedFlights and
\* savedItems together, budget for the budget card
NoBudget == [shown |-> FALSE, total |-> 0]
NoBuilder == [id |-> 0, loading |-> TRUE, itinerary |-> 0, budget |-> NoBudget,
              saved |-> NoSaved, itineraryPending |-> FALSE, budgetPending |-> FALSE]

\* the user is signed in and /auth/me has answered; no other page holds state
InitApp ==
  /\ user = 1
  /\ authLoading = FALSE
  /\ authNet = IdleAuth
  /\ myItineraries = NoMyItineraries
  /\ builder = NoBuilder
  /\ routeId = 0

PendingItem(type, data) == [type |-> type, data |-> data]

StoredHotel == PendingItem("hotel", [HotelPriced EXCEPT !.estimated_cost = 100, !.price = 100])
StoredItinerary == [itinerary_id |-> 1, title |-> "Trip to Paris", destination |-> "Paris",
                    departure_date |-> 1, return_date |-> 3]

\* drafts of an itinerary: with a title, with a destination only
TitledDraft == [StoredItinerary EXCEPT !.itinerary_id = 0]
UntitledDraft == [StoredItinerary EXCEPT !.itinerary_id = 0, !.title = ""]

\* the itinerary CreateItinerary stores: its destination is an airport code
FlightItinerary == [StoredItinerary EXCEPT !.title = "Trip to JFK", !.destination = "JFK"]

\* What the browser may hold when the application is loaded: nothing, what an
\* earlier session wrote, or text that does not parse.
InitialPendingTexts == {Null, JSONstringifyArray(<<>>), JSONstringifyArray(<<StoredHotel>>),
                        MalformedItems}
InitialItineraryTexts == {Null, JSONstringifyObject(StoredItinerary), MalformedItinerary}

InitSearchState ==
  /\ searchType = "hotels"
  /\ pendingItems = <<>>
  /\ currentItinerary = NoItinerary
  /\ selectedItineraryId = 0
  /\ itineraries = {}
  /\ selectedItem = NoData
  /\ adding = FALSE
  /\ checkIn = 0
  /\ checkOut = 0
  /\ error = ""
  /\ successMessage = ""
  /\ loadPending = FALSE
  /\ successTimer = FALSE
  /\ query = ""
  /\ results = <<>>
  /\ loading = FALSE

InitChatIdle ==
  /\ selectedConversation = 0
  /\ messages = <<>>
  /\ lastUpdater = "none"
  /\ chatNet = [r \in RequestSlots |-> IdleRequest]
  /\ timeouts = {}
  /\ serverMessages = [c \in Conversations |-> <<>>]

\* The application is loaded with one of the given texts under each key
InitCart(pendingTexts, itineraryTexts) ==
  /\ page = "home"
  /\ navigation = ""
  /\ uncaught = "none"
  /\ \E p \in pendingTexts, c \in itineraryTexts :
       localStorage = [SignedInStorage EXCEPT !.planit_pending_items = p,
                                        !.planit_current_itinerary = c]
  /\ \E n \in {0, 1} :
       server = [itineraries |-> 1..n, lastId |-> n,
                 titles |-> [i \in ItineraryIds |->
                              IF i <= n THEN Listed(CharCodes(StoredItinerary.title), <<>>)
                              ELSE NoListed]]
  /\ InitSearchState
  /\ InitApp
  /\ calls = [s \in CallSlots |-> IdleCall]
  /\ searchCalls = [k \in SearchSlots |-> IdleSearch]
  /\ searchTimers = <<>>

\* The component is unmounted: its state is gone (the next mount starts from the
\* useState defaults) and the suspended handlers now belong to a dead instance.
UnmountSearch ==
  /\ searchType' = "hotels"
  /\ pendingItems' = <<>>
  /\ currentItinerary' = NoItinerary
  /\ selectedItineraryId' = 0
  /\ itineraries' = {}
  /\ selectedItem' = NoData
  /\ adding' = FALSE
  /\ checkIn' = 0
  /\ checkOut' = 0
  /\ error' = ""
  /\ successMessage' = ""
  /\ loadPending' = FALSE
  /\ successTimer' = FALSE
  /\ query' = ""
  /\ results' = <<>>
  /\ loading' = FALSE

IsIata(dest) == dest \in IataCodes
\* String.prototype.trim
Trim(q) == IF q = " " THEN "" ELSE q

\* the rank a search issued now gets
issueOrder(cs) == Cardinality({j \in SearchSlots : cs[j].phase # "idle"}) + 1

\* the searches in flight once the search of slot k is over; answered: it was
\* answered rather than failed
searchesAfter(cs, k, answered) ==
  [j \in SearchSlots |->
     IF j = k \/ cs[j].phase = "idle" THEN IdleSearch
     ELSE IF cs[j].order > cs[k].order THEN [cs[j] EXCEPT !.order = @ - 1]
     ELSE [cs[j] EXCEPT !.overtaken = @ \/ answered]]

\* the searches and timers of an unmounted instance
StaleSearches(cs) == [k \in SearchSlots |-> IF cs[k].phase = "idle" THEN cs[k]
                                              ELSE [cs[k] EXCEPT !.stale = TRUE]]
StaleTimers(ts) == [i \in 1..Len(ts) |-> [ts[i] EXCEPT !.stale = TRUE]]

MarkStale(cs) == [s \in DOMAIN cs |-> IF cs[s].pc = "idle" THEN cs[s]
                                      ELSE [cs[s] EXCEPT !.stale = TRUE]]

----------------------------------------------------------------------------
(* Routing *)

\* Search's mount effect.  An exception thrown inside an effect is not caught by
\* any error boundary of the application: React unmounts the whole tree.
\* The effect's setTimeout(() => handleSearch('hotels'), 0) calls the first
\* render's handleSearch, whose query is '': it returns at once, so the timer is
\* not kept here.
MountSearch ==
  LET items == getPendingItems(localStorage)
      it == getStoredItinerary(localStorage)
      present == localStorage.planit_current_itinerary # Null
  IN IF ~items.ok \/ ~it.ok
     THEN /\ page' = "crashed"
          /\ uncaught' = "SyntaxError"
          /\ UnmountSearch
     ELSE /\ page' = "search"
          /\ uncaught' = uncaught
          /\ loadPending' = TRUE
          /\ pendingItems' = items.value
          /\ currentItinerary' = it.value
          /\ selectedItineraryId' = it.value.itinerary_id
          /\ checkIn' = it.value.departure_date
          /\ checkOut' = it.value.return_date
          /\ searchType' = "hotels"
          /\ itineraries' = {}
          /\ selectedItem' = NoData
          /\ adding' = FALSE
          /\ error' = ""
          /\ successMessage' = ""
          /\ successTimer' = FALSE
          /\ query' = IF Trim(it.value.destination) # "" /\ ~IsIata(Trim(it.value.destination))
                       THEN Trim(it.value.destination) ELSE ""
          /\ results' = <<>>
          /\ loading' = FALSE

\* MyItineraries is mounted (its effect calls loadItineraries), unmounted (its
\* state is gone, its suspended handleDelete belongs to a dead instance) or left
\* as it is
routeMyItineraries(target) ==
  IF target = page THEN myItineraries
  ELSE IF target = "myitineraries"
  THEN [NoMyItineraries EXCEPT !.loadPending = TRUE, !.deleteCall = myItineraries.deleteCall]
  ELSE IF page = "myitineraries"
  THEN [NoMyItineraries EXCEPT !.deleteCall =
          IF myItineraries.deleteCall.pc = "idle" THEN IdleDelete
          ELSE [myItineraries.deleteCall EXCEPT !.stale = TRUE]]
  ELSE myItineraries

\* the text loadSavedData reads
loadSavedDataText(ls, id) == ls.planit_saved_data

\* ItineraryBuilder's [id] effect on the state b: loadItinerary is called,
\* loadSavedData shows the stored data if they are of this itinerary, else
\* calculateBudget is called
builderEffect(b, id) ==
  LET text == loadSavedDataText(localStorage, id)
      parsed == text # Null /\ IsObjectText(text)
      hasLocalData == parsed /\ JSONparseObject(text).itinerary_id = id
  IN IF id = 0 THEN [b EXCEPT !.id = 0]
     ELSE [b EXCEPT !.id = id,
                    !.itineraryPending = TRUE,
                    !.saved = IF hasLocalData THEN JSONparseObject(text) ELSE b.saved,
                    !.budget = IF hasLocalData
                               THEN [shown |-> TRUE, total |-> JSONparseObject(text).total]
                               ELSE b.budget,
                    !.budgetPending = IF hasLocalData THEN b.budgetPending ELSE TRUE]

\* ItineraryBuilder is mounted, gets another :id, is unmounted or left as it is
routeBuilder(target) ==
  IF target = "itinerary"
  THEN IF page # "itinerary" THEN builderEffect(NoBuilder, routeId)
       ELSE IF routeId # builder.id THEN builderEffect(builder, routeId)
       ELSE builder
  ELSE IF page = "itinerary" THEN NoBuilder
  ELSE builder

\* The router commits a route change to target
\* the Login page is left or entered: its form state starts afresh, a login
\* request of the page that was left stays in flight
routeLogin(target) ==
  IF target = page \/ "login" \notin {target, page} THEN authNet
  ELSE [authNet EXCEPT !.loginError = "",
                       !.login = IF @ = "idle" THEN "idle" ELSE "stale"]

CommitRoute(target) ==
  /\ navigation' = ""
  /\ routeId' = 0
  /\ myItineraries' = routeMyItineraries(target)
  /\ builder' = routeBuilder(target)
  /\ authNet' = routeLogin(target)
  /\ UNCHANGED <<localStorage, server, chatVars, user, authLoading>>
  /\ IF target = page
     THEN UNCHANGED <<page, uncaught, searchVars, calls, searchNet>>
     ELSE IF target = "search"
     THEN MountSearch /\ UNCHANGED <<calls, searchNet>>
     ELSE /\ page' = target
          /\ uncaught' = uncaught
          /\ IF page = "search"
             THEN /\ UnmountSearch
                  /\ calls' = MarkStale(calls)
                  /\ searchCalls' = StaleSearches(searchCalls)
                  /\ searchTimers' = StaleTimers(searchTimers)
             ELSE UNCHANGED <<searchVars, calls, searchNet>>

\* The user follows a link of the navigation bar
Navigate(target) ==
  /\ page # "crashed"
  /\ navigation = ""
  /\ target # page
  /\ CommitRoute(target)

\* A navigate() call of a handler takes effect
CommitNavigation ==
  /\ page # "crashed"
  /\ navigation # ""
  /\ CommitRoute(navigation)

----------------------------------------------------------------------------
(* Search page: handlers *)

Mounted == page = "search"

\* window 'focus' listener
handleFocus ==
  /\ Mounted
  /\ LET it == getStoredItinerary(localStorage)
         adopt == localStorage.planit_current_itinerary # Null /\ currentItinerary = NoItinerary
         items == getPendingItems(localStorage)
     IN IF adopt /\ ~it.ok
        THEN /\ uncaught' = "SyntaxError"
             /\ UNCHANGED <<currentItinerary, selectedItineraryId, pendingItems>>
        ELSE /\ currentItinerary' = IF adopt THEN it.value ELSE currentItinerary
             /\ selectedItineraryId' = IF adopt THEN it.value.itinerary_id ELSE selectedItineraryId
             /\ IF items.ok
                THEN pendingItems' = items.value /\ uncaught' = uncaught
                ELSE pendingItems' = pendingItems /\ uncaught' = "SyntaxError"
  /\ UNCHANGED <<page, navigation, localStorage, server, calls, chatVars, appVars, resultVars, searchNet, searchType,
                 itineraries, selectedItem, adding, checkIn, checkOut, error,
                 successMessage, loadPending, successTimer>>

\* the mount effect's loadItineraries() completes
loadItinerariesResponse(ok) ==
  /\ Mounted
  /\ loadPending
  /\ loadPending' = FALSE
  /\ itineraries' = IF ok THEN server.itineraries ELSE itineraries
  /\ UNCHANGED <<page, navigation, uncaught, localStorage, server, calls, chatVars, appVars, resultVars, searchNet,
                 searchType, pendingItems, currentItinerary, selectedItineraryId,
                 selectedItem, adding, checkIn, checkOut, error, successMessage,
                 successTimer>>

\* the timer callback of switchSearchType calls handleSearch(type), and that
\* call gets past its first line: all with the values of the render that
\* handled the click
autoSearches(type) ==
  LET dest == Trim(currentItinerary.destination)
      q == IF ~IsIata(dest) /\ dest # "" THEN dest ELSE query
  IN /\ IF type = "attractions" THEN q # ""
        ELSE checkIn # 0 /\ checkOut # 0 /\ query # ""
     /\ Trim(query) # ""

\* the tab buttons; the effect on [searchType] runs when the tab changed
switchSearchType(type) ==
  /\ Mounted
  /\ results' = <<>>
  /\ searchType' = type
  /\ query' = IF type = "attractions" /\ searchType # "attractions"
              THEN LET locationQuery == Trim(OrText(currentItinerary.destination, query))
                   IN IF locationQuery # "" /\ ~IsIata(locationQuery)
                      THEN locationQuery ELSE ""
              ELSE query
  /\ IF autoSearches(type)
     THEN /\ Len(searchTimers) < MaxTimers
          /\ searchTimers' = Append(searchTimers, [type |-> type, stale |-> FALSE])
     ELSE searchTimers' = searchTimers
  /\ UNCHANGED <<page, navigation, uncaught, localStorage, server, calls, chatVars, appVars,
                 searchCalls, loading,
                 pendingItems, currentItinerary, selectedItineraryId, itineraries,
                 selectedItem, adding, checkIn, checkOut, error, successMessage,
                 loadPending, successTimer>>

\* the search box's onChange
setQuery(q) ==
  /\ Mounted
  /\ q # query
  /\ query' = q
  /\ UNCHANGED <<page, navigation, uncaught, localStorage, server, calls, chatVars, appVars,
                 searchNet, results, loading,
                 searchType, pendingItems, currentItinerary, selectedItineraryId,
                 itineraries, selectedItem, adding, checkIn, checkOut, error,
                 successMessage, loadPending, successTimer>>

DatesRequired == "Check-in and check-out dates are required (use itinerary dates or enter dates)"
NoAttractionsFound == "No attractions found (server returned unexpected data)."
AppearToBeHotels == "Attractions endpoint returned results that appear to be hotels; none shown."

\* handleSearch up to its await, for the values of the render it closes over:
\* request: api.get is called; setsError: setError is called, with error
searchOutcome(activeType, q, ci, co, itinerary) ==
  IF Trim(q) = ""
  THEN [request |-> FALSE, setsError |-> FALSE, error |-> ""]
  ELSE IF /\ activeType = "hotels"
          /\ (OrElse(ci, itinerary.departure_date) = 0
                \/ OrElse(co, itinerary.return_date) = 0)
  THEN [request |-> FALSE, setsError |-> TRUE, error |-> DatesRequired]
  ELSE [request |-> TRUE, setsError |-> TRUE, error |-> ""]

\* the Search button, or Enter in the search box
handleSearch(k) ==
  /\ Mounted
  /\ LET out == searchOutcome(searchType, query, checkIn, checkOut, currentItinerary)
     IN IF ~out.setsError
        THEN UNCHANGED <<error, successMessage, loading, checkIn, checkOut, searchCalls>>
        ELSE /\ error' = out.error
             /\ successMessage' = ""
             /\ IF out.request
                THEN /\ searchCalls[k].phase = "idle"
                     /\ searchCalls' = [searchCalls EXCEPT
                          ![k] = [phase |-> "request", type |-> searchType, stale |-> FALSE,
                                  order |-> issueOrder(searchCalls), overtaken |-> FALSE]]
                     /\ loading' = TRUE
                     /\ IF searchType = "hotels"
                        THEN /\ checkIn' = OrElse(checkIn, currentItinerary.departure_date)
                             /\ checkOut' = OrElse(checkOut, currentItinerary.return_date)
                        ELSE UNCHANGED <<checkIn, checkOut>>
                ELSE /\ loading' = FALSE
                     /\ UNCHANGED <<checkIn, checkOut, searchCalls>>
  /\ UNCHANGED <<page, navigation, uncaught, localStorage, server, calls, chatVars, appVars,
                 searchTimers, query, results,
                 searchType, pendingItems, currentItinerary, selectedItineraryId,
                 itineraries, selectedItem, adding, loadPending, successTimer>>

\* the oldest timer of switchSearchType fires: handleSearch(type) of the render
\* that set it.  On an unmounted instance the request is still sent.
autoSearch(k) ==
  /\ searchTimers # <<>>
  /\ searchCalls[k].phase = "idle"
  /\ LET timer == Head(searchTimers)
     IN /\ searchCalls' = [searchCalls EXCEPT
             ![k] = [phase |-> "request", type |-> timer.type, stale |-> timer.stale,
                     order |-> issueOrder(searchCalls), overtaken |-> FALSE]]
        /\ IF timer.stale
           THEN UNCHANGED <<loading, error, successMessage>>
           ELSE loading' = TRUE /\ error' = "" /\ successMessage' = ""
  /\ searchTimers' = Tail(searchTimers)
  /\ UNCHANGED <<page, navigation, uncaught, localStorage, server, calls, chatVars, appVars,
                 query, results,
                 searchType, pendingItems, currentItinerary, selectedItineraryId,
                 itineraries, selectedItem, adding, checkIn, checkOut, loadPending,
                 successTimer>>

\* the state a search response leaves: results and error
attractionsResult(body, err) ==
  IF body.shape = "array"
  THEN LET normalized == notHotelLike(mapNormalizeAttraction(body.list))
       IN [results |-> normalized,
           error |-> IF Len(normalized) = 0 /\ Len(body.list) > 0
                     THEN AppearToBeHotels ELSE err]
  ELSE [results |-> <<>>, error |-> NoAttractionsFound]

\* response.data.hotels of no data at all throws a TypeError into the catch
hotelsResult(body, res, err) ==
  IF body.shape = "noData"
  THEN [results |-> res, error |-> "Search failed"]
  ELSE [results |-> mapNormalizeHotel(body.list), error |-> err]

\* fault injection: the answer of a search is dropped when a search issued
\* after it has been answered already
searchResponseLatestOnly(k, body) ==
  /\ searchCalls[k].phase = "request"
  /\ body \in SearchBodies(searchCalls[k].type)
  /\ searchCalls' = searchesAfter(searchCalls, k, TRUE)
  /\ IF searchCalls[k].stale \/ searchCalls[k].overtaken
     THEN UNCHANGED <<results, error, loading>>
     ELSE LET after == IF searchCalls[k].type = "attractions"
                       THEN attractionsResult(body, error)
                       ELSE hotelsResult(body, results, error)
          IN /\ results' = after.results
             /\ error' = after.error
             /\ loading' = FALSE
  /\ UNCHANGED <<page, navigation, uncaught, localStorage, server, calls, chatVars, appVars,
                 searchTimers, query,
                 searchType, pendingItems, currentItinerary, selectedItineraryId,
                 itineraries, selectedItem, adding, checkIn, checkOut, successMessage,
                 loadPending, successTimer>>

\* the search of slot k is answered with body
searchResponse(k, body) ==
  /\ searchCalls[k].phase = "request"
  /\ body \in SearchBodies(searchCalls[k].type)
  /\ searchCalls' = searchesAfter(searchCalls, k, TRUE)
  /\ IF searchCalls[k].stale
     THEN UNCHANGED <<results, error, loading>>
     ELSE LET after == IF searchCalls[k].type = "attractions"
                       THEN attractionsResult(body, error)
                       ELSE hotelsResult(body, results, error)
          IN /\ results' = after.results
             /\ error' = after.error
             /\ loading' = FALSE
  /\ UNCHANGED <<page, navigation, uncaught, localStorage, server, calls, chatVars, appVars,
                 searchTimers, query,
                 searchType, pendingItems, currentItinerary, selectedItineraryId,
                 itineraries, selectedItem, adding, checkIn, checkOut, successMessage,
                 loadPending, successTimer>>

\* fault injection: a failed search empties the result list
searchFailsClearing(k, msg) ==
  /\ searchCalls[k].phase = "request"
  /\ searchCalls' = searchesAfter(searchCalls, k, FALSE)
  /\ IF searchCalls[k].stale
     THEN UNCHANGED <<results, error, loading>>
     ELSE /\ error' = errorText(msg, "Search failed")
          /\ loading' = FALSE
          /\ results' = <<>>
  /\ UNCHANGED <<page, navigation, uncaught, localStorage, server, calls, chatVars, appVars,
                 searchTimers, query,
                 searchType, pendingItems, currentItinerary, selectedItineraryId,
                 itineraries, selectedItem, adding, checkIn, checkOut, successMessage,
                 loadPending, successTimer>>

\* the search of slot k fails (a non-2xx answer with msg, or no answer: "")
searchFails(k, msg) ==
  /\ searchCalls[k].phase = "request"
  /\ searchCalls' = searchesAfter(searchCalls, k, FALSE)
  /\ IF searchCalls[k].stale
     THEN UNCHANGED <<results, error, loading>>
     ELSE /\ error' = errorText(msg, "Search failed")
          /\ loading' = FALSE
          /\ results' = results
  /\ UNCHANGED <<page, navigation, uncaught, localStorage, server, calls, chatVars, appVars,
                 searchTimers, query,
                 searchType, pendingItems, currentItinerary, selectedItineraryId,
                 itineraries, selectedItem, adding, checkIn, checkOut, successMessage,
                 loadPending, successTimer>>

\* the date inputs' onChange
setDates(ci, co) ==
  /\ Mounted
  /\ checkIn' = ci
  /\ checkOut' = co
  /\ <<ci, co>> # <<checkIn, checkOut>>
  /\ UNCHANGED <<page, navigation, uncaught, localStorage, server, calls, chatVars, appVars, resultVars, searchNet,
                 searchType, pendingItems, currentItinerary, selectedItineraryId,
                 itineraries, selectedItem, adding, error, successMessage,
                 loadPending, successTimer>>

\* the itinerary dropdown's onChange
selectItinerary(id) ==
  /\ Mounted
  /\ id \in itineraries \cup {0}
  /\ id # selectedItineraryId
  /\ selectedItineraryId' = id
  /\ UNCHANGED <<page, navigation, uncaught, localStorage, server, calls, chatVars, appVars, resultVars, searchNet,
                 searchType, pendingItems, currentItinerary, itineraries, selectedItem,
                 adding, checkIn, checkOut, error, successMessage, loadPending,
                 successTimer>>

openAddModal(item) ==
  /\ Mounted
  /\ selectedItem' = item
  /\ error' = ""
  /\ selectedItineraryId' = currentItinerary.itinerary_id
  /\ UNCHANGED <<page, navigation, uncaught, localStorage, server, calls, chatVars, appVars, resultVars, searchNet,
                 searchType, pendingItems, currentItinerary, itineraries, adding,
                 checkIn, checkOut, successMessage, loadPending, successTimer>>

closeModal ==
  /\ Mounted
  /\ selectedItem # NoData
  /\ selectedItem' = NoData
  /\ error' = ""
  /\ UNCHANGED <<page, navigation, uncaught, localStorage, server, calls, chatVars, appVars, resultVars, searchNet,
                 searchType, pendingItems, currentItinerary, selectedItineraryId,
                 itineraries, adding, checkIn, checkOut, successMessage, loadPending,
                 successTimer>>

\* fault injection: the per-night price is not multiplied by the nights
estimatedCostPerNight(itemType, item, ci, co) ==
  IF itemType = "hotel"
  THEN OrElse(item.price_per_night, OrElse(item.price, getFallbackPriceForItem(item)))
  ELSE OrElse(item.price, OrElse(item.estimated_cost, getFallbackPriceForItem(item)))

\* estimated_cost as handleAddToLocalStorage computes it
estimatedCostOf(itemType, item, ci, co) ==
  IF itemType = "hotel"
  THEN OrElse(item.price_per_night, OrElse(item.price, getFallbackPriceForItem(item)))
         * computeNights(ci, co)
  ELSE OrElse(item.price, OrElse(item.estimated_cost, getFallbackPriceForItem(item)))

addedMessage(itemType) ==
  IF itemType = "hotel" THEN "Hotel added to pending items!"
  ELSE "Attraction added to pending items!"

handleAddToLocalStorage ==
  /\ Mounted
  /\ selectedItem # NoData
  /\ LET itemType == IF searchType = "hotels" THEN "hotel" ELSE "attraction"
         estimatedCost == estimatedCostOf(itemType, selectedItem, checkIn, checkOut)
         pendingItem == PendingItem(itemType,
                          [selectedItem EXCEPT !.estimated_cost = estimatedCost,
                                               !.price = estimatedCost])
         before == getPendingItems(localStorage)
     IN IF ~before.ok
        THEN /\ uncaught' = "SyntaxError"
             /\ UNCHANGED <<localStorage, pendingItems, successMessage, selectedItem, error>>
        ELSE /\ Len(before.value) < MaxPending
             /\ localStorage' = addPendingItem(localStorage, pendingItem)
             /\ pendingItems' = getPendingItems(localStorage').value
             /\ successMessage' = addedMessage(itemType)
             /\ selectedItem' = NoData
             /\ error' = ""
             /\ uncaught' = uncaught
  /\ UNCHANGED <<page, navigation, server, calls, chatVars, appVars, resultVars, searchNet, searchType,
                 currentItinerary, selectedItineraryId, itineraries, adding, checkIn,
                 checkOut, loadPending, successTimer>>

\* estimated_cost as handleAddToItinerary sends it
requestCostOf(itemType, item, ci, co) ==
  IF itemType = "hotel"
  THEN OrElse(item.price_per_night, OrElse(item.price, getFallbackPriceForItem(item)))
         * computeNights(ci, co)
  ELSE OrElse(item.price, OrElse(item.price_per_night, 0))

\* the Add button of the modal
handleAddToItinerary(s) ==
  /\ Mounted
  /\ IF selectedItem = NoData
     THEN /\ error' = "No item selected"
          /\ UNCHANGED <<page, navigation, uncaught, localStorage, server, calls, chatVars,
                         appVars, resultVars, searchNet, searchType, pendingItems,
                         currentItinerary, selectedItineraryId, itineraries, selectedItem,
                         adding, checkIn, checkOut, successMessage, loadPending,
                         successTimer>>
     ELSE IF selectedItineraryId = 0
     THEN handleAddToLocalStorage
     ELSE LET itemType == IF searchType = "attractions" THEN "attraction" ELSE "hotel"
          IN /\ calls[s].pc = "idle"
             /\ adding' = TRUE
             /\ error' = ""
             /\ calls' = [calls EXCEPT ![s] =
                            [IdleCall EXCEPT
                               !.pc = "add",
                               !.itineraryId = selectedItineraryId,
                               !.item = selectedItem,
                               !.searchType = searchType,
                               !.checkIn = checkIn,
                               !.checkOut = checkOut,
                               !.item_type = itemType,
                               !.estimated_cost =
                                  requestCostOf(itemType, selectedItem, checkIn, checkOut)]]
             /\ UNCHANGED <<page, navigation, uncaught, localStorage, server, chatVars,
                            appVars, resultVars, searchNet, searchType, pendingItems,
                            currentItinerary, selectedItineraryId, itineraries,
                            selectedItem, checkIn, checkOut, successMessage, loadPending,
                            successTimer>>

\* POST /itineraries/<id>/items succeeded: handleAddToLocalStorage of the render
\* the handler closed over runs inside the try, then the finally
addItemSucceeds(s) ==
  LET c == calls[s]
      itemType == IF c.searchType = "hotels" THEN "hotel" ELSE "attraction"
      estimatedCost == estimatedCostOf(itemType, c.item, c.checkIn, c.checkOut)
      pendingItem == PendingItem(itemType,
                       [c.item EXCEPT !.estimated_cost = estimatedCost,
                                      !.price = estimatedCost])
      before == getPendingItems(localStorage)
  IN /\ c.pc = "add"
     /\ calls' = [calls EXCEPT ![s] = IdleCall]
     /\ IF ~before.ok
        THEN \* the SyntaxError of JSON.parse lands in the catch
             /\ error' = IF c.stale THEN error ELSE "Failed to add item to itinerary"
             /\ adding' = IF c.stale THEN adding ELSE FALSE
             /\ UNCHANGED <<localStorage, pendingItems, successMessage, selectedItem>>
        ELSE /\ Len(before.value) < MaxPending
             /\ localStorage' = addPendingItem(localStorage, pendingItem)
             /\ IF c.stale
                THEN UNCHANGED <<pendingItems, successMessage, selectedItem, error, adding>>
                ELSE /\ pendingItems' = getPendingItems(localStorage').value
                     /\ successMessage' = addedMessage(itemType)
                     /\ selectedItem' = NoData
                     /\ error' = ""
                     /\ adding' = FALSE
     /\ UNCHANGED <<page, navigation, uncaught, server, chatVars, appVars, resultVars,
                    searchNet, searchType, currentItinerary, selectedItineraryId,
                    itineraries, checkIn, checkOut, loadPending, successTimer>>

\* POST /itineraries/<id>/items failed (msg: the server's message, "" when it has none)
addItemFails(s, msg) ==
  LET c == calls[s]
  IN /\ c.pc = "add"
     /\ calls' = [calls EXCEPT ![s] = IdleCall]
     /\ error' = IF c.stale THEN error
                 ELSE IF msg # "" THEN msg ELSE "Failed to add item to itinerary"
     /\ adding' = IF c.stale THEN adding ELSE FALSE
     /\ UNCHANGED <<page, navigation, uncaught, localStorage, server, chatVars, appVars,
                    resultVars, searchNet, searchType, pendingItems, currentItinerary,
                    selectedItineraryId, itineraries, selectedItem, checkIn, checkOut,
                    successMessage, loadPending, successTimer>>

removedMessage(type) ==
  IF type = "hotel" THEN "Hotel removed from pending items!"
  ELSE IF type = "flight" THEN "Flight removed from pending items!"
  ELSE "Attraction removed from pending items!"

\* the Remove button of the index-th rendered pending item (0-based)
removePendingItem(index) ==
  /\ Mounted
  /\ index \in 0..(Len(pendingItems) - 1)
  /\ LET before == getPendingItems(localStorage)
     IN IF ~before.ok
        THEN /\ uncaught' = "SyntaxError"
             /\ UNCHANGED <<localStorage, pendingItems, successMessage, successTimer>>
        ELSE /\ localStorage' = removePendingItemStore(localStorage, index)
             /\ pendingItems' = splice(before.value, index)
             /\ IF index < Len(before.value)
                THEN /\ successMessage' = removedMessage(before.value[index + 1].type)
                     /\ successTimer' = TRUE
                     /\ uncaught' = uncaught
                ELSE \* removedItem is undefined: removedItem.type throws
                     /\ uncaught' = "TypeError"
                     /\ UNCHANGED <<successMessage, successTimer>>
  /\ UNCHANGED <<page, navigation, server, calls, chatVars, appVars, resultVars, searchNet, searchType,
                 currentItinerary, selectedItineraryId, itineraries, selectedItem,
                 adding, checkIn, checkOut, error, loadPending>>

\* setTimeout(() => setSuccessMessage(''), 3000); timers set within the same
\* 3 s are counted as one
successTimerFires ==
  /\ Mounted
  /\ successTimer
  /\ successTimer' = FALSE
  /\ successMessage' = ""
  /\ UNCHANGED <<page, navigation, uncaught, localStorage, server, calls, chatVars, appVars, resultVars, searchNet,
                 searchType, pendingItems, currentItinerary, selectedItineraryId,
                 itineraries, selectedItem, adding, checkIn, checkOut, error,
                 loadPending>>

\* the Clear All button
clearAll ==
  /\ Mounted
  /\ pendingItems # <<>>
  /\ localStorage' = clearPendingItems(localStorage)
  /\ pendingItems' = <<>>
  /\ UNCHANGED <<page, navigation, uncaught, server, calls, chatVars, appVars, resultVars, searchNet, searchType,
                 currentItinerary, selectedItineraryId, itineraries, selectedItem,
                 adding, checkIn, checkOut, error, successMessage, loadPending,
                 successTimer>>

----------------------------------------------------------------------------
(* Checkout: handleSaveAllToItinerary, one action per stretch between awaits *)

FreeSlot(s) == calls[s].pc = "idle"

RECURSIVE SelectSeq2(_, _)
\* items.filter(...) for the two partitions of the payload
SelectSeq2(items, wantFlights) ==
  IF items = <<>> THEN <<>>
  ELSE LET rest == SelectSeq2(Tail(items), wantFlights)
       IN IF (Head(items).type = "flight") = wantFlights
          THEN <<Head(items)>> \o rest ELSE rest

\* the payload of the save request
savePayload(items) ==
  LET fl == SelectSeq2(items, TRUE)
      nf == SelectSeq2(items, FALSE)
  IN [flights |-> [i \in 1..Len(fl) |-> fl[i].data],
      items |-> [i \in 1..Len(nf) |->
                   [name |-> OrCodes(nf[i].data.name, OrCodes(nf[i].data.title, Unknown)),
                    price |-> OrElse(nf[i].data.estimated_cost,
                                OrElse(nf[i].data.price, nf[i].data.price_per_night)),
                    type |-> nf[i].type]]]

\* fault injection: the guard on an empty pending list is lost
noPendingItemsUnchecked(items) == FALSE

\* pendingItems.length === 0
noPendingItems(items) == Len(items) = 0

\* the itineraries of the list that count for the location loc
sameForLocation(loc) ==
  LET locKey == toLowerCase(loc)
  IN {id \in itineraries :
        \/ includes(toLowerCase(server.titles[id].title), locKey)
        \/ toLowerCase(server.titles[id].destination) = locKey}

\* fault injection: every itinerary of the list counts for the location
defaultItineraryTitleCountingAll ==
  IF currentItinerary.title # "" THEN CharCodes(currentItinerary.title)
  ELSE LET loc == Trim(OrText(currentItinerary.destination, query))
       IN IF loc # ""
          THEN TripTo \o CharCodes(loc) \o <<32>> \o Digits(Cardinality(itineraries) + 1)
          ELSE ItineraryWord \o Digits(Cardinality(itineraries) + 1)

defaultItineraryTitle ==
  IF currentItinerary.title # "" THEN CharCodes(currentItinerary.title)
  ELSE LET loc == Trim(OrText(currentItinerary.destination, query))
       IN IF loc # ""
          THEN TripTo \o CharCodes(loc) \o <<32>>
                 \o Digits(Cardinality(sameForLocation(CharCodes(loc))) + 1)
          ELSE ItineraryWord \o Digits(Cardinality(itineraries) + 1)

handleSaveAllToItinerary(s) ==
  /\ Mounted
  /\ IF noPendingItems(pendingItems)
     THEN /\ error' = "No pending items to save"
          /\ UNCHANGED <<adding, calls>>
     ELSE IF selectedItineraryId = 0
     THEN LET it == getStoredItinerary(localStorage)
          IN IF ~it.ok
             THEN \* JSON.parse throws inside the outer try
                  /\ error' = "Failed to save items"
                  /\ adding' = FALSE
                  /\ UNCHANGED calls
             ELSE /\ FreeSlot(s)
                  /\ error' = ""
                  /\ adding' = TRUE
                  /\ calls' = [calls EXCEPT ![s] =
                       [IdleCall EXCEPT !.pc = "create", !.pendingItems = pendingItems,
                                        !.stored = it.value,
                                        !.title =
                                          IF /\ it.value.departure_date # 0
                                             /\ it.value.return_date # 0
                                             /\ it.value.title # ""
                                          THEN CharCodes(it.value.title)
                                          ELSE defaultItineraryTitle,
                                        !.itineraryCount = Cardinality(itineraries)]]
     ELSE /\ FreeSlot(s)
          /\ error' = ""
          /\ adding' = TRUE
          /\ calls' = [calls EXCEPT ![s] =
               [IdleCall EXCEPT !.pc = "save", !.pendingItems = pendingItems,
                                !.itineraryId = selectedItineraryId,
                                !.itineraryCount = Cardinality(itineraries),
                                !.payload = savePayload(pendingItems)]]
  /\ UNCHANGED <<page, navigation, uncaught, localStorage, server, chatVars, appVars, resultVars, searchNet, searchType,
                 pendingItems, currentItinerary, selectedItineraryId, itineraries,
                 selectedItem, checkIn, checkOut, successMessage, loadPending,
                 successTimer>>

itineraryTitle(n) == "Itinerary " \o ToString(n)

\* the create request succeeded and returned an id
createSucceeds(s) ==
  /\ calls[s].pc = "create"
  /\ server.lastId < MaxItineraries
  /\ LET c == calls[s]
         id == server.lastId + 1
         current == [itinerary_id |-> id,
                     title |-> IF c.stored.title # "" THEN c.stored.title
                               ELSE itineraryTitle(c.itineraryCount + 1),
                     destination |-> c.stored.destination,
                     departure_date |-> c.stored.departure_date,
                     return_date |-> c.stored.return_date]
     IN /\ server' = [itineraries |-> server.itineraries \cup {id}, lastId |-> id,
                      titles |-> [server.titles EXCEPT ![id] = Listed(c.title, <<>>)]]
        /\ localStorage' = [localStorage EXCEPT !.planit_current_itinerary =
                              JSONstringifyObject(current)]
        /\ currentItinerary' = IF c.stale THEN currentItinerary ELSE current
        /\ selectedItineraryId' = IF c.stale THEN selectedItineraryId ELSE id
        /\ calls' = [calls EXCEPT ![s].pc = "reload", ![s].itineraryId = id]
  /\ UNCHANGED <<page, navigation, uncaught, chatVars, appVars, resultVars, searchNet, searchType, pendingItems,
                 itineraries, selectedItem, adding, checkIn, checkOut, error,
                 successMessage, loadPending, successTimer>>

\* the create request failed (msg: the server's message, "" if none), or its
\* response carried no itinerary_id (msg = "")
createFails(s, msg) ==
  /\ calls[s].pc = "create"
  /\ error' = IF calls[s].stale THEN error ELSE errorText(msg, "Failed to create itinerary")
  /\ adding' = IF calls[s].stale THEN adding ELSE FALSE
  /\ calls' = [calls EXCEPT ![s] = IdleCall]
  /\ UNCHANGED <<page, navigation, uncaught, localStorage, server, chatVars, appVars, resultVars, searchNet, searchType,
                 pendingItems, currentItinerary, selectedItineraryId, itineraries,
                 selectedItem, checkIn, checkOut, successMessage, loadPending,
                 successTimer>>

\* await loadItineraries() after the creation: it swallows its own failure; the
\* save request is issued next
reloadCompletes(s, ok) ==
  /\ calls[s].pc = "reload"
  /\ itineraries' = IF ok /\ ~calls[s].stale THEN server.itineraries ELSE itineraries
  /\ calls' = [calls EXCEPT ![s].pc = "save",
                            ![s].payload = savePayload(calls[s].pendingItems)]
  /\ UNCHANGED <<page, navigation, uncaught, localStorage, server, chatVars, appVars, resultVars, searchNet, searchType,
                 pendingItems, currentItinerary, selectedItineraryId, selectedItem,
                 adding, checkIn, checkOut, error, successMessage, loadPending,
                 successTimer>>

\* fault injection: the pending items are not cleared after the save
storeAfterSaveKeepingPending(ls, itineraryId, data) ==
  LET text == JSONstringifyObject([itinerary_id |-> itineraryId, total |-> data.total])
  IN [ls EXCEPT !.saved[itineraryId] = text, !.planit_saved_data = text,
                !.planit_current_itinerary = Null]

savedDataPayload(itineraryId, data) == [itinerary_id |-> itineraryId, total |-> data.total]

\* what the code writes to localStorage after a successful save
storeAfterSave(ls, itineraryId, data) ==
  LET text == JSONstringifyObject(savedDataPayload(itineraryId, data))
      written == [ls EXCEPT !.saved[itineraryId] = text, !.planit_saved_data = text]
  IN [clearPendingItems(written) EXCEPT !.planit_current_itinerary = Null]

saveSucceeds(s, data) ==
  /\ calls[s].pc = "save"
  /\ calls[s].itineraryId \in server.itineraries
  /\ localStorage' = storeAfterSave(localStorage, calls[s].itineraryId, data)
  /\ IF calls[s].stale
     THEN UNCHANGED <<pendingItems, currentItinerary, successMessage, adding>>
     ELSE /\ pendingItems' = <<>>
          /\ currentItinerary' = NoItinerary
          /\ successMessage' = "All items saved to itinerary!"
          /\ adding' = FALSE
  /\ navigation' = "itinerary"
  /\ routeId' = calls[s].itineraryId
  /\ calls' = [calls EXCEPT ![s] = IdleCall]
  /\ UNCHANGED <<page, uncaught, server, chatVars, user, authLoading, authNet, myItineraries,
                 builder, resultVars, searchNet, searchType, selectedItineraryId,
                 itineraries, selectedItem, checkIn, checkOut, error, loadPending,
                 successTimer>>

\* fault injection: the failure path clears the pending items as the success
\* path does
saveFailsClearing(s, msg) ==
  /\ calls[s].pc = "save"
  /\ error' = IF calls[s].stale THEN error ELSE errorText(msg, "Failed to save items")
  /\ adding' = IF calls[s].stale THEN adding ELSE FALSE
  /\ localStorage' = clearPendingItems(localStorage)
  /\ pendingItems' = IF calls[s].stale THEN pendingItems ELSE <<>>
  /\ calls' = [calls EXCEPT ![s] = IdleCall]
  /\ UNCHANGED <<page, navigation, uncaught, server, chatVars, appVars, resultVars, searchNet, searchType,
                 currentItinerary, selectedItineraryId, itineraries,
                 selectedItem, checkIn, checkOut, successMessage, loadPending,
                 successTimer>>

saveFails(s, msg) ==
  /\ calls[s].pc = "save"
  /\ error' = IF calls[s].stale THEN error ELSE errorText(msg, "Failed to save items")
  /\ adding' = IF calls[s].stale THEN adding ELSE FALSE
  /\ calls' = [calls EXCEPT ![s] = IdleCall]
  /\ UNCHANGED <<page, navigation, uncaught, localStorage, server, chatVars, appVars, resultVars, searchNet, searchType,
                 pendingItems, currentItinerary, selectedItineraryId, itineraries,
                 selectedItem, checkIn, checkOut, successMessage, loadPending,
                 successTimer>>

----------------------------------------------------------------------------
(* Checkout: the two buttons that call handleSaveAllToItinerary *)

\* the Save All to Itinerary button under the pending list, which is rendered
\* while the list is not empty: disabled={adding || !selectedItineraryId}
saveAllButton(s) ==
  /\ Len(pendingItems) > 0
  /\ ~adding
  /\ selectedItineraryId # 0
  /\ handleSaveAllToItinerary(s)

\* the button of the banner, which is rendered while currentItinerary is set:
\* Save & View Itinerary, or View Itinerary
saveAndViewButton(s) ==
  /\ Mounted
  /\ currentItinerary # NoItinerary
  /\ IF Len(pendingItems) > 0 /\ selectedItineraryId # 0
     THEN handleSaveAllToItinerary(s)
     ELSE /\ navigation = ""
          /\ navigation' = "itinerary"
          /\ routeId' = currentItinerary.itinerary_id
          /\ UNCHANGED <<page, uncaught, localStorage, server, searchVars, calls, searchNet,
                         chatVars, user, authLoading, authNet, myItineraries, builder>>

----------------------------------------------------------------------------
(* CreateItinerary page: createItinerary, from the response of its request on *)

FlightItem == PendingItem("flight", FlightData)
RecommendationItem == PendingItem("attraction",
  [NoData EXCEPT !.name = <<82, 49>>, !.price = 15])

\* flights: the selected flights found in the result lists; recs: the AI
\* recommendations carried along
createItinerary(flights, recs, title, departureDate, returnDate) ==
  /\ page = "create"
  /\ navigation = ""
  /\ server.lastId < MaxItineraries
  /\ LET itineraryId == server.lastId + 1
         allPendingItems == flights \o recs
     IN /\ server' = [itineraries |-> server.itineraries \cup {itineraryId},
                      lastId |-> itineraryId,
                      titles |-> [server.titles EXCEPT ![itineraryId] =
                        Listed(CharCodes(IF title # "" THEN title ELSE "Trip to JFK"),
                               CharCodes("JFK"))]]
        /\ localStorage' = [localStorage EXCEPT
             !.planit_pending_items = JSONstringifyArray(allPendingItems),
             !.planit_current_itinerary = JSONstringifyObject(
                [itinerary_id |-> itineraryId,
                 title |-> IF title # "" THEN title ELSE "Trip to JFK",
                 destination |-> "JFK",
                 departure_date |-> departureDate,
                 return_date |-> returnDate])]
  /\ navigation' = "search"
  /\ UNCHANGED <<page, uncaught, calls, searchNet, chatVars, appVars, searchVars>>

----------------------------------------------------------------------------
(* MyItineraries page *)

MyItinerariesMounted == page = "myitineraries"

\* loadItineraries of MyItineraries is answered, or fails
myItinerariesLoaded(ok) ==
  /\ MyItinerariesMounted
  /\ myItineraries.loadPending
  /\ myItineraries' = [myItineraries EXCEPT
       !.loadPending = FALSE,
       !.loading = FALSE,
       !.itineraries = IF ok THEN server.itineraries ELSE @,
       !.error = IF ok THEN @ ELSE "Failed to load itineraries"]
  /\ UNCHANGED <<cartVars, chatVars, user, authLoading, authNet, builder, routeId>>

\* the bin button of a card; the user answers the confirm() box
handleDelete(itineraryId, confirmed) ==
  /\ MyItinerariesMounted
  /\ itineraryId \in myItineraries.itineraries
  /\ myItineraries.deletingId # itineraryId
  /\ myItineraries.deleteCall.pc = "idle"
  /\ myItineraries' = IF ~confirmed THEN myItineraries
                      ELSE [myItineraries EXCEPT
                              !.deletingId = itineraryId,
                              !.deleteCall = [pc |-> "delete", id |-> itineraryId,
                                              stale |-> FALSE]]
  /\ UNCHANGED <<cartVars, chatVars, user, authLoading, authNet, builder, routeId>>

\* DELETE /itineraries/<id> is answered: the backend no longer has the itinerary
deleteSucceeds ==
  LET c == myItineraries.deleteCall
  IN /\ c.pc = "delete"
     /\ c.id \in server.itineraries
     /\ server' = [server EXCEPT !.itineraries = @ \ {c.id}]
     /\ myItineraries' =
          IF c.stale THEN [myItineraries EXCEPT !.deleteCall = IdleDelete]
          ELSE [myItineraries EXCEPT !.itineraries = @ \ {c.id},
                                     !.deletingId = 0,
                                     !.deleteCall = IdleDelete]
     /\ UNCHANGED <<page, navigation, uncaught, localStorage, searchVars, calls, searchNet,
                    chatVars, user, authLoading, authNet, builder, routeId>>

deleteFails ==
  LET c == myItineraries.deleteCall
  IN /\ c.pc = "delete"
     /\ myItineraries' =
          IF c.stale THEN [myItineraries EXCEPT !.deleteCall = IdleDelete]
          ELSE [myItineraries EXCEPT !.error = "Failed to delete itinerary",
                                     !.deletingId = 0,
                                     !.deleteCall = IdleDelete]
     /\ UNCHANGED <<cartVars, chatVars, user, authLoading, authNet, builder, routeId>>

\* the title and the View Details button of a card
viewDetails(itineraryId) ==
  /\ MyItinerariesMounted
  /\ navigation = ""
  /\ itineraryId \in myItineraries.itineraries
  /\ navigation' = "itinerary"
  /\ routeId' = itineraryId
  /\ UNCHANGED <<page, uncaught, localStorage, server, searchVars, calls, searchNet,
                 chatVars, user, authLoading, authNet, myItineraries, builder>>

----------------------------------------------------------------------------
(* ItineraryBuilder page *)

BuilderMounted == page = "itinerary"

\* GET /itineraries/<id> is answered, or fails
loadItineraryResponse(ok) ==
  /\ BuilderMounted
  /\ builder.itineraryPending
  /\ builder' = [builder EXCEPT !.itineraryPending = FALSE,
                                !.loading = FALSE,
                                !.itinerary = IF ok THEN builder.id ELSE @]
  /\ UNCHANGED <<cartVars, chatVars, user, authLoading, authNet, myItineraries, routeId>>

\* GET /itineraries/<id>/budget is answered with a budget, or fails
calculateBudgetResponse(ok, data) ==
  /\ BuilderMounted
  /\ builder.budgetPending
  /\ builder' = [builder EXCEPT !.budgetPending = FALSE,
                                !.budget = IF ok THEN [shown |-> TRUE, total |-> data.total]
                                           ELSE @]
  /\ UNCHANGED <<cartVars, chatVars, user, authLoading, authNet, myItineraries, routeId>>

----------------------------------------------------------------------------
(* The checkout workflow: what is pending comes from an earlier session or *)
(* from CreateItinerary; the user selects a target, removes items, checks out *)

Routing ==
  \/ \E target \in {"home", "search", "create"} : Navigate(target)
  \/ CommitNavigation

Checkout ==
  \/ \E s \in CallSlots : handleSaveAllToItinerary(s)
  \/ \E s \in CallSlots : createSucceeds(s)
  \/ \E s \in CallSlots, msg \in ServerMsgs : createFails(s, msg)
  \/ \E s \in CallSlots, ok \in BOOLEAN : reloadCompletes(s, ok)
  \/ \E s \in CallSlots, data \in SaveResponses : saveSucceeds(s, data)
  \/ \E s \in CallSlots, msg \in ServerMsgs : saveFails(s, msg)

NextCart ==
  \/ Routing
  \/ Checkout
  \/ handleFocus
  \/ \E ok \in BOOLEAN : loadItinerariesResponse(ok)
  \/ \E id \in ItineraryIds \cup {0} : selectItinerary(id)
  \/ \E index \in 0..MaxPending : removePendingItem(index)
  \/ successTimerFires
  \/ clearAll
  \/ \E flights \in {<<>>, <<FlightItem>>}, recs \in {<<>>, <<RecommendationItem>>},
        title \in {"", "Honeymoon"}, dates \in TripDates :
       createItinerary(flights, recs, title, dates[1], dates[2])

Init == InitCart(InitialPendingTexts, InitialItineraryTexts) /\ InitChatIdle

Spec == Init /\ [][NextCart]_vars

----------------------------------------------------------------------------
(* Adding to the pending list and its pricing: the user picks dates and a    *)
(* tab, adds search results, removes them, checks out                        *)

NextPricing ==
  \/ Navigate("search")
  \/ \E type \in {"hotels", "attractions"} : switchSearchType(type)
  \/ \E dates \in StayDates : setDates(dates[1], dates[2])
  \/ \E item \in SearchResults : openAddModal(item)
  \/ handleAddToLocalStorage
  \/ \E index \in 0..MaxPending : removePendingItem(index)
  \/ \E s \in CallSlots : handleSaveAllToItinerary(s)
  \/ \E s \in CallSlots, msg \in ServerMsgs : saveFails(s, msg)

InitPricing ==
  /\ InitCart({Null}, {JSONstringifyObject(FlightItinerary)})
  /\ InitChatIdle
  /\ server.lastId = 1

SpecPricing == InitPricing /\ [][NextPricing]_vars

----------------------------------------------------------------------------
(* A deleted itinerary: the cache names itinerary 1, which the backend      *)
(* holds; the user deletes it on MyItineraries and checks out on Search     *)

NextStale ==
  \/ \E target \in {"search", "myitineraries"} : Navigate(target)
  \/ CommitNavigation
  \/ \E ok \in BOOLEAN : myItinerariesLoaded(ok)
  \/ \E id \in ItineraryIds, confirmed \in BOOLEAN : handleDelete(id, confirmed)
  \/ deleteSucceeds
  \/ deleteFails
  \/ \E ok \in BOOLEAN : loadItinerariesResponse(ok)
  \/ \E s \in CallSlots : handleSaveAllToItinerary(s)
  \/ \E s \in CallSlots, data \in SaveResponses : saveSucceeds(s, data)
  \/ \E s \in CallSlots, msg \in ServerMsgs : saveFails(s, msg)

InitStale ==
  /\ InitCart({JSONstringifyArray(<<StoredHotel>>)}, {JSONstringifyObject(StoredItinerary)})
  /\ InitChatIdle
  /\ server.lastId = 1

SpecStale == InitStale /\ [][NextStale]_vars

----------------------------------------------------------------------------
(* Saved data: a hotel is pending for the cached itinerary 1; the user checks *)
(* out, adds hotels, checks out again, and opens itineraries from the list    *)

NextSaved ==
  \/ \E target \in {"search", "myitineraries"} : Navigate(target)
  \/ CommitNavigation
  \/ openAddModal(HotelPriced)
  \/ handleAddToLocalStorage
  \/ \E s \in CallSlots : handleSaveAllToItinerary(s)
  \/ \E s \in CallSlots : createSucceeds(s)
  \/ \E s \in CallSlots, ok \in BOOLEAN : reloadCompletes(s, ok)
  \/ \E s \in CallSlots, data \in SaveResponses : saveSucceeds(s, data)
  \/ \E ok \in BOOLEAN : myItinerariesLoaded(ok)
  \/ \E id \in ItineraryIds : viewDetails(id)
  \/ \E ok \in BOOLEAN : loadItineraryResponse(ok)
  \/ \E ok \in BOOLEAN, data \in SaveResponses : calculateBudgetResponse(ok, data)

InitSaved ==
  /\ InitCart({JSONstringifyArray(<<StoredHotel>>)}, {JSONstringifyObject(StoredItinerary)})
  /\ InitChatIdle
  /\ server.lastId = 1

SpecSaved == InitSaved /\ [][NextSaved]_vars

----------------------------------------------------------------------------
(* The buttons: a hotel is pending for the cached itinerary 1; the user      *)
(* presses the two checkout buttons, changes the target, removes the hotel  *)

NextButtons ==
  \/ Navigate("search")
  \/ CommitNavigation
  \/ \E ok \in BOOLEAN : loadItinerariesResponse(ok)
  \/ \E id \in ItineraryIds \cup {0} : selectItinerary(id)
  \/ \E index \in 0..MaxPending : removePendingItem(index)
  \/ successTimerFires
  \/ \E s \in CheckoutSlots : saveAllButton(s)
  \/ \E s \in CheckoutSlots : saveAndViewButton(s)
  \/ \E s \in CheckoutSlots, data \in SaveResponses : saveSucceeds(s, data)
  \/ \E s \in CheckoutSlots, msg \in ServerMsgs : saveFails(s, msg)

InitButtons ==
  /\ page = "home"
  /\ navigation = ""
  /\ uncaught = "none"
  /\ localStorage = [SignedInStorage EXCEPT
       !.planit_pending_items = JSONstringifyArray(<<StoredHotel>>),
       !.planit_current_itinerary = JSONstringifyObject(StoredItinerary)]
  /\ server = [itineraries |-> {1}, lastId |-> 1,
               titles |-> [i \in ItineraryIds |->
                            IF i = 1 THEN Listed(CharCodes(StoredItinerary.title), <<>>)
                            ELSE NoListed]]
  /\ InitSearchState
  /\ InitApp
  /\ calls = [s \in CheckoutSlots |-> IdleCall]
  /\ searchCalls = [k \in SearchSlots |-> IdleSearch]
  /\ searchTimers = <<>>
  /\ InitChatIdle

SpecButtons == InitButtons /\ [][NextButtons]_vars

----------------------------------------------------------------------------
(* Adding to a selected itinerary: the cache names itinerary 1 *)

\* the results the list of a search type shows
resultsOf(type) ==
  IF type = "hotels" THEN {HotelPriced, HotelUnpriced}
  ELSE {AttractionPriced, AttractionUnpriced}

NextAdd ==
  \/ Navigate("search")
  \/ \E ok \in BOOLEAN : loadItinerariesResponse(ok)
  \/ \E type \in {"hotels", "attractions"} : switchSearchType(type)
  \/ \E dates \in {<<0, 0>>, <<1, MaxDay>>} : setDates(dates[1], dates[2])
  \/ \E item \in resultsOf(searchType) : openAddModal(item)
  \/ closeModal
  \/ \E id \in ItineraryIds \cup {0} : selectItinerary(id)
  \/ \E s \in CallSlots : handleAddToItinerary(s)
  \/ \E s \in CallSlots : addItemSucceeds(s)
  \/ \E s \in CallSlots, msg \in ServerMsgs : addItemFails(s, msg)

InitAdd ==
  /\ InitCart({Null}, {JSONstringifyObject(StoredItinerary)})
  /\ InitChatIdle
  /\ server.lastId = 1

SpecAdd == InitAdd /\ [][NextAdd]_vars

----------------------------------------------------------------------------
(* AuthProvider, Navbar and Login page *)

\* localStorage.removeItem('access_token'); localStorage.removeItem('user')
removeSession(ls) == [ls EXCEPT !.access_token = Null, !.user = Null]

\* what the mount effect of the AuthProvider starts for a storage
mountAuth(ls) ==
  [IdleAuth EXCEPT !.me = IF ls.access_token # Null /\ ls.user # Null
                          THEN "pending" ELSE "timer"]

\* GET /auth/me answered with the profile of user u
meSucceeds(u) ==
  /\ authNet.me = "pending"
  /\ user' = u
  /\ localStorage' = [localStorage EXCEPT !.user = JSONstringifyObject([user_id |-> u])]
  /\ authLoading' = FALSE
  /\ authNet' = [authNet EXCEPT !.me = "idle"]
  /\ UNCHANGED <<page, navigation, uncaught, server, searchVars, calls, searchNet,
                 chatVars, myItineraries, builder, routeId>>

\* GET /auth/me rejected
meFails ==
  /\ authNet.me = "pending"
  /\ user' = 0
  /\ localStorage' = removeSession(localStorage)
  /\ authLoading' = FALSE
  /\ authNet' = [authNet EXCEPT !.me = "idle"]
  /\ UNCHANGED <<page, navigation, uncaught, server, searchVars, calls, searchNet,
                 chatVars, myItineraries, builder, routeId>>

\* setTimeout(() => setLoading(false), 0) of a mount without a session
loadingTimer ==
  /\ authNet.me = "timer"
  /\ authLoading' = FALSE
  /\ authNet' = [authNet EXCEPT !.me = "idle"]
  /\ UNCHANGED <<cartVars, chatVars, user, myItineraries, builder, routeId>>

\* logout() of the context, called by a consumer
logout ==
  /\ localStorage' = removeSession(localStorage)
  /\ user' = 0
  /\ UNCHANGED <<page, navigation, uncaught, server, searchVars, calls, searchNet,
                 chatVars, authLoading, authNet, myItineraries, builder, routeId>>

\* Navbar: the Logout button, rendered when a user is set
handleLogout ==
  /\ user # 0
  /\ localStorage' = removeSession(localStorage)
  /\ user' = 0
  /\ navigation' = "login"
  /\ UNCHANGED <<page, uncaught, server, searchVars, calls, searchNet,
                 chatVars, authLoading, authNet, myItineraries, builder, routeId>>

\* Login: the effect and the <Navigate> that leave the page once a user is set
loginRedirect ==
  /\ page = "login"
  /\ user # 0
  /\ ~authLoading
  /\ navigation # "home"
  /\ navigation' = "home"
  /\ UNCHANGED <<page, uncaught, localStorage, server, searchVars, calls, searchNet,
                 chatVars, appVars>>

\* Login: the form is submitted (filled: both fields hold text)
handleSubmit(filled) ==
  /\ page = "login"
  /\ ~authLoading
  /\ user = 0
  /\ authNet.login = "idle"
  /\ authNet' = IF filled
                THEN [authNet EXCEPT !.loginError = "", !.login = "pending"]
                ELSE [authNet EXCEPT !.loginError = "Email and password are required"]
  /\ UNCHANGED <<cartVars, chatVars, user, authLoading, myItineraries, builder, routeId>>

\* POST /auth/login answered with a token and the profile of user u
loginSucceeds(u) ==
  /\ authNet.login \in {"pending", "stale"}
  /\ localStorage' = [localStorage EXCEPT !.access_token = <<"token">>,
                                          !.user = JSONstringifyObject([user_id |-> u])]
  /\ user' = u
  /\ navigation' = "home"
  /\ authNet' = [authNet EXCEPT !.login = "idle"]
  /\ UNCHANGED <<page, uncaught, server, searchVars, calls, searchNet,
                 chatVars, authLoading, myItineraries, builder, routeId>>

\* the HTTP statuses a rejected login is told apart by; 0: no response
LoginStatuses == {0, 401, 500}

\* the message the Login page shows for a rejected login
loginErrorMsg(msg, status) ==
  IF msg # "" THEN msg
  ELSE IF status = 401 THEN "Invalid email or password"
  ELSE IF status = 500 THEN "Server error. Please try again later."
  ELSE "Login failed. Please check your credentials and try again."

\* POST /auth/login rejected (msg: the server's message, "" when it has none)
loginFails(msg, status) ==
  /\ authNet.login \in {"pending", "stale"}
  /\ authNet' = [authNet EXCEPT
                   !.login = "idle",
                   !.loginError = IF authNet.login = "stale" THEN @
                                  ELSE loginErrorMsg(msg, status)]
  /\ UNCHANGED <<cartVars, chatVars, user, authLoading, myItineraries, builder, routeId>>

\* the browser reloads the application on a public page: every component
\* is mounted anew and the requests of the old document are gone
reload ==
  /\ page \in {"home", "login"}
  /\ navigation' = ""
  /\ user' = 0
  /\ authLoading' = TRUE
  /\ authNet' = mountAuth(localStorage)
  /\ UNCHANGED <<page, uncaught, localStorage, server, searchVars, calls, searchNet,
                 chatVars, myItineraries, builder, routeId>>

NextAuth ==
  \/ \E target \in {"home", "login"} : Navigate(target)
  \/ CommitNavigation
  \/ reload
  \/ \E u \in Users : meSucceeds(u)
  \/ meFails
  \/ loadingTimer
  \/ logout
  \/ handleLogout
  \/ loginRedirect
  \/ \E filled \in BOOLEAN : handleSubmit(filled)
  \/ \E u \in Users : loginSucceeds(u)
  \/ \E msg \in ServerMsgs, status \in LoginStatuses : loginFails(msg, status)

\* the application is opened, with or without a stored session
InitAuth ==
  /\ page = "home"
  /\ navigation = ""
  /\ uncaught = "none"
  /\ localStorage \in {NoStorage} \cup
       {[SignedInStorage EXCEPT !.user = JSONstringifyObject([user_id |-> u])] : u \in Users}
  /\ server = [itineraries |-> {}, lastId |-> 0, titles |-> [i \in ItineraryIds |-> NoListed]]
  /\ InitSearchState
  /\ calls = [s \in CallSlots |-> IdleCall]
  /\ searchCalls = [k \in SearchSlots |-> IdleSearch]
  /\ searchTimers = <<>>
  /\ InitChatIdle
  /\ user = 0
  /\ authLoading = TRUE
  /\ authNet = mountAuth(localStorage)
  /\ myItineraries = NoMyItineraries
  /\ builder = NoBuilder
  /\ routeId = 0

SpecAuth == InitAuth /\ [][NextAuth]_vars

----------------------------------------------------------------------------
(* Retries: a hotel is pending, nothing is selected, the backend holds no    *)
(* itinerary; the checkout handler is called again and again, also while an *)
(* earlier call is suspended                                                 *)

NextRetry ==
  \/ Navigate("search")
  \/ CommitNavigation
  \/ handleFocus
  \/ \E ok \in BOOLEAN : loadItinerariesResponse(ok)
  \/ \E s \in CheckoutSlots : handleSaveAllToItinerary(s)
  \/ \E s \in CheckoutSlots : createSucceeds(s)
  \/ \E s \in CheckoutSlots, msg \in ServerMsgs : createFails(s, msg)
  \/ \E s \in CheckoutSlots, ok \in BOOLEAN : reloadCompletes(s, ok)
  \/ \E s \in CheckoutSlots, data \in SaveResponses : saveSucceeds(s, data)
  \/ \E s \in CheckoutSlots, msg \in ServerMsgs : saveFails(s, msg)

InitRetry ==
  /\ page = "home"
  /\ navigation = ""
  /\ uncaught = "none"
  /\ \E c \in {Null, JSONstringifyObject(TitledDraft), JSONstringifyObject(UntitledDraft)} :
       localStorage = [SignedInStorage EXCEPT
         !.planit_pending_items = JSONstringifyArray(<<StoredHotel>>),
         !.planit_current_itinerary = c]
  /\ server = [itineraries |-> {}, lastId |-> 0,
               titles |-> [i \in ItineraryIds |-> NoListed]]
  /\ InitSearchState
  /\ InitApp
  /\ calls = [s \in CheckoutSlots |-> IdleCall]
  /\ searchCalls = [k \in SearchSlots |-> IdleSearch]
  /\ searchTimers = <<>>
  /\ InitChatIdle

SpecRetry == InitRetry /\ [][NextRetry]_vars

----------------------------------------------------------------------------
(* Default titles: a hotel is pending, the cache holds no itinerary or a     *)
(* draft without an id, the backend lists one itinerary; the user types a    *)
(* location and checks out                                                   *)

\* the itinerary the backend lists at first
ListedAtFirst == {TripToParis1,
                  Listed(CharCodes("Honeymoon"), CharCodes("PARIS")),
                  Listed(CharCodes("Trip to JFK"), CharCodes("JFK"))}
TitleQueries == {"", "Paris", "PARIS", "Rome"}

NextTitles ==
  \/ Navigate("search")
  \/ CommitNavigation
  \/ \E ok \in BOOLEAN : loadItinerariesResponse(ok)
  \/ \E q \in TitleQueries : setQuery(q)
  \/ \E s \in CallSlots : handleSaveAllToItinerary(s)
  \/ \E s \in CallSlots : createSucceeds(s)
  \/ \E s \in CallSlots, msg \in ServerMsgs : createFails(s, msg)
  \/ \E s \in CallSlots, ok \in BOOLEAN : reloadCompletes(s, ok)
  \/ \E s \in CallSlots, data \in SaveResponses : saveSucceeds(s, data)
  \/ \E s \in CallSlots, msg \in ServerMsgs : saveFails(s, msg)

InitTitles ==
  /\ page = "home"
  /\ navigation = ""
  /\ uncaught = "none"
  /\ \E c \in {Null, JSONstringifyObject(TitledDraft), JSONstringifyObject(UntitledDraft)} :
       localStorage = [SignedInStorage EXCEPT
                         !.planit_pending_items = JSONstringifyArray(<<StoredHotel>>),
                         !.planit_current_itinerary = c]
  /\ \E first \in ListedAtFirst :
       server = [itineraries |-> {1}, lastId |-> 1,
                 titles |-> [i \in ItineraryIds |-> IF i = 1 THEN first ELSE NoListed]]
  /\ InitSearchState
  /\ InitApp
  /\ calls = [s \in CallSlots |-> IdleCall]
  /\ searchCalls = [k \in SearchSlots |-> IdleSearch]
  /\ searchTimers = <<>>
  /\ InitChatIdle

SpecTitles == InitTitles /\ [][NextTitles]_vars

----------------------------------------------------------------------------
(* Nights: the user picks any two dates and adds a priced hotel *)

NextNights ==
  \/ Navigate("search")
  \/ \E ci \in Days, co \in Days : setDates(ci, co)
  \/ openAddModal(HotelPriced)
  \/ handleAddToLocalStorage
  \/ \E index \in 0..MaxPending : removePendingItem(index)

InitNights ==
  /\ InitCart({Null}, {Null})
  /\ InitChatIdle
  /\ server.lastId = 0

SpecNights == InitNights /\ [][NextNights]_vars

----------------------------------------------------------------------------
(* Fallback prices: the user adds results that have no price, on either tab, *)
(* in one visit of the page or in several; no dates are set                  *)

NextFallback ==
  \/ Navigate("search")
  \/ Navigate("home")
  \/ \E type \in {"hotels", "attractions"} : switchSearchType(type)
  \/ \E item \in UnpricedResults : openAddModal(item)
  \/ handleAddToLocalStorage
  \/ \E index \in 0..MaxPending : removePendingItem(index)

InitFallback ==
  /\ InitCart({Null}, {Null})
  /\ InitChatIdle
  /\ server.lastId = 0

SpecFallback == InitFallback /\ [][NextFallback]_vars

----------------------------------------------------------------------------
(* Searching: the user types a query, picks dates and a tab, searches; the   *)
(* provider answers, fails, or answers after the user has moved on           *)

NextSearch ==
  \/ Navigate("search")
  \/ Navigate("home")
  \/ \E q \in Queries : setQuery(q)
  \/ \E dates \in SearchDates : setDates(dates[1], dates[2])
  \/ \E type \in {"hotels", "attractions"} : switchSearchType(type)
  \/ \E k \in SearchSlots : handleSearch(k)
  \/ \E k \in SearchSlots : autoSearch(k)
  \/ \E k \in SearchSlots, body \in AllSearchBodies : searchResponse(k, body)
  \/ \E k \in SearchSlots, msg \in ServerMsgs : searchFails(k, msg)

InitSearch ==
  /\ InitCart({Null}, {Null, JSONstringifyObject(StoredItinerary)})
  /\ InitChatIdle
  /\ server.lastId = 0

SpecSearch == InitSearch /\ [][NextSearch]_vars

----------------------------------------------------------------------------
(* Chat: loadMessages (the poll), sendMessage, and the backend's side *)

existingIds(prev) == {prev[i].message_id : i \in 1..Len(prev)}

uniqueNewMessages(prev, newMessages) ==
  SelectSeq(newMessages, LAMBDA m : m.message_id \notin existingIds(prev))

\* fault injection: the fetched list always replaces the held one
loadMessagesUpdaterReplacing(prev, newMessages) ==
  [value |-> newMessages, taken |-> "loadMessages:newMessages"]

\* fault injection: the comparison of the lengths is left out
loadMessagesUpdaterNoLength(prev, newMessages) ==
  IF Len(uniqueNewMessages(prev, newMessages)) = 0
  THEN [value |-> prev, taken |-> "loadMessages:prev"]
  ELSE [value |-> newMessages, taken |-> "loadMessages:newMessages"]

\* fault injection: held messages the fetched list lacks are kept behind it
loadMessagesUpdaterMerging(prev, newMessages) ==
  LET fetched == {newMessages[i].message_id : i \in 1..Len(newMessages)}
      kept == SelectSeq(prev, LAMBDA m : m.message_id \notin fetched)
  IN IF Len(uniqueNewMessages(prev, newMessages)) = 0 /\ Len(prev) = Len(newMessages)
     THEN [value |-> prev, taken |-> "loadMessages:prev"]
     ELSE [value |-> newMessages \o kept, taken |-> "loadMessages:newMessages"]

\* the updater loadMessages passes to setMessages: the list it returns and the
\* return statement taken (prev itself, or the fetched array)
loadMessagesUpdater(prev, newMessages) ==
  IF Len(uniqueNewMessages(prev, newMessages)) = 0 /\ Len(prev) = Len(newMessages)
  THEN [value |-> prev, taken |-> "loadMessages:prev"]
  ELSE [value |-> newMessages, taken |-> "loadMessages:newMessages"]

\* fault injection: the sent message is appended without looking for its id
sendMessageUpdaterAppending(prev, message) ==
  [value |-> Append(prev, message), taken |-> "sendMessage:appended"]

\* fault injection: the sent message is put in front
sendMessageUpdaterPrepending(prev, message) ==
  IF \E i \in 1..Len(prev) : prev[i].message_id = message.message_id
  THEN [value |-> prev, taken |-> "sendMessage:prev"]
  ELSE [value |-> <<message>> \o prev, taken |-> "sendMessage:appended"]

\* the updater sendMessage passes to setMessages
sendMessageUpdater(prev, message) ==
  IF \E i \in 1..Len(prev) : prev[i].message_id = message.message_id
  THEN [value |-> prev, taken |-> "sendMessage:prev"]
  ELSE [value |-> Append(prev, message), taken |-> "sendMessage:appended"]

RECURSIVE SumLen(_, _)
SumLen(f, S) == IF S = {} THEN 0
                ELSE LET c == CHOOSE x \in S : TRUE IN Len(f[c]) + SumLen(f, S \ {c})

\* message ids are the backend's serial numbers
StoredMessages == SumLen(serverMessages, Conversations)
nextMessageId == StoredMessages + 1

ChatMounted == page = "chat"

\* a conversation of the list is clicked: navigate(`/chat/${id}`); the held
\* messages stay; the poll effect's cleanup clears the interval of the old
\* conversation (not its timeout), the effect sets a zero-delay timeout and an
\* interval for the new one.  Timers of one conversation and instance that
\* are pending together are counted as one.
selectConversation(c) ==
  /\ ChatMounted
  /\ c # selectedConversation
  /\ selectedConversation' = c
  /\ timeouts' = timeouts \cup {[conversation |-> c, stale |-> FALSE]}
  /\ UNCHANGED <<cartVars, appVars, messages, lastUpdater, chatNet, serverMessages>>

\* loadMessages up to its await, called by the interval of the selected
\* conversation
loadMessages(r) ==
  /\ ChatMounted
  /\ selectedConversation # 0
  /\ chatNet[r].phase = "idle"
  /\ chatNet' = [chatNet EXCEPT ![r] =
       [IdleRequest EXCEPT !.phase = "request", !.kind = "get",
                           !.conversation = selectedConversation]]
  /\ UNCHANGED <<cartVars, appVars, selectedConversation, messages, lastUpdater, timeouts, serverMessages>>

\* GET /chat/conversations/:id/messages is answered
serverListsMessages(r) ==
  /\ chatNet[r].phase = "request"
  /\ chatNet[r].kind = "get"
  /\ chatNet' = [chatNet EXCEPT ![r].phase = "response",
                                ![r].messages = serverMessages[chatNet[r].conversation]]
  /\ UNCHANGED <<cartVars, appVars, selectedConversation, messages, lastUpdater, timeouts, serverMessages>>

\* loadMessages after its await
loadMessagesResponse(r) ==
  /\ chatNet[r].phase = "response"
  /\ chatNet[r].kind = "get"
  /\ LET updated == loadMessagesUpdater(messages, chatNet[r].messages)
     IN IF chatNet[r].stale
        THEN UNCHANGED <<messages, lastUpdater>>
        ELSE /\ messages' = updated.value
             /\ lastUpdater' = updated.taken
  /\ chatNet' = [chatNet EXCEPT ![r] = IdleRequest]
  /\ UNCHANGED <<cartVars, appVars, selectedConversation, timeouts, serverMessages>>

\* a request or its response is lost: the catch logs it
requestFails(r) ==
  /\ chatNet[r].phase # "idle"
  /\ chatNet' = [chatNet EXCEPT ![r] = IdleRequest]
  /\ UNCHANGED <<cartVars, appVars, selectedConversation, messages, lastUpdater, timeouts, serverMessages>>

\* sendMessage up to its await (the input holds text)
sendMessage(r) ==
  /\ ChatMounted
  /\ selectedConversation # 0
  /\ chatNet[r].phase = "idle"
  /\ chatNet' = [chatNet EXCEPT ![r] =
       [IdleRequest EXCEPT !.phase = "request", !.kind = "post",
                           !.conversation = selectedConversation]]
  /\ UNCHANGED <<cartVars, appVars, selectedConversation, messages, lastUpdater, timeouts, serverMessages>>

\* POST /chat/conversations/:id/messages is stored; the response carries the
\* stored message, or none
serverStoresMessage(r, withMessage) ==
  /\ chatNet[r].phase = "request"
  /\ chatNet[r].kind = "post"
  /\ StoredMessages < MaxMessages
  /\ LET stored == [message_id |-> nextMessageId, sender_id |-> 1]
         c == chatNet[r].conversation
     IN /\ serverMessages' = [serverMessages EXCEPT ![c] = Append(@, stored)]
        /\ chatNet' = [chatNet EXCEPT ![r].phase = "response",
                          ![r].message = IF withMessage THEN stored ELSE NoMessage]
  /\ UNCHANGED <<cartVars, appVars, selectedConversation, messages, lastUpdater, timeouts>>

\* sendMessage after its await: the sent message is appended, or, when the
\* response carries none, loadMessages() of the same render is called
sendMessageResponse(r) ==
  /\ chatNet[r].phase = "response"
  /\ chatNet[r].kind = "post"
  /\ IF chatNet[r].message # NoMessage
     THEN LET updated == sendMessageUpdater(messages, chatNet[r].message)
          IN /\ IF chatNet[r].stale
                THEN UNCHANGED <<messages, lastUpdater>>
                ELSE /\ messages' = updated.value
                     /\ lastUpdater' = updated.taken
             /\ chatNet' = [chatNet EXCEPT ![r] = IdleRequest]
     ELSE /\ chatNet' = [chatNet EXCEPT ![r] =
               [IdleRequest EXCEPT !.phase = "request", !.kind = "get",
                                   !.conversation = chatNet[r].conversation,
                                   !.stale = chatNet[r].stale]]
          /\ UNCHANGED <<messages, lastUpdater>>
  /\ UNCHANGED <<cartVars, appVars, selectedConversation, timeouts, serverMessages>>

\* the other party of conversation c sends a message
otherUserSends(c) ==
  /\ StoredMessages < MaxMessages
  /\ serverMessages' = [serverMessages EXCEPT ![c] =
       Append(@, [message_id |-> nextMessageId, sender_id |-> 2])]
  /\ UNCHANGED <<cartVars, appVars, selectedConversation, messages, lastUpdater, chatNet, timeouts>>

\* a zero-delay timeout of the poll effect fires: loadMessages of the render
\* that set it, whatever is selected or mounted by now
timeoutFires(r, t) ==
  /\ t \in timeouts
  /\ chatNet[r].phase = "idle"
  /\ timeouts' = timeouts \ {t}
  /\ chatNet' = [chatNet EXCEPT ![r] =
       [IdleRequest EXCEPT !.phase = "request", !.kind = "get",
                           !.conversation = t.conversation, !.stale = t.stale]]
  /\ UNCHANGED <<cartVars, appVars, selectedConversation, messages, lastUpdater, serverMessages>>

\* the Chat component is torn down (the user leaves for the home page): the
\* cleanup clears the interval; the state is gone, what is suspended or
\* scheduled belongs to a dead instance
leaveChat ==
  /\ ChatMounted
  /\ page' = "home"
  /\ selectedConversation' = 0
  /\ messages' = <<>>
  /\ lastUpdater' = "none"
  /\ chatNet' = [r \in RequestSlots |->
       IF chatNet[r].phase = "idle" THEN chatNet[r] ELSE [chatNet[r] EXCEPT !.stale = TRUE]]
  /\ timeouts' = {[t EXCEPT !.stale = TRUE] : t \in timeouts}
  /\ UNCHANGED <<navigation, uncaught, localStorage, server, searchVars, calls, searchNet, appVars,
                 serverMessages>>

\* the Chat page is opened on /chat (c = 0) or on /chat/c
openChat(c) ==
  /\ page = "home"
  /\ page' = "chat"
  /\ selectedConversation' = c
  /\ timeouts' = IF c = 0 THEN timeouts
                 ELSE timeouts \cup {[conversation |-> c, stale |-> FALSE]}
  /\ UNCHANGED <<navigation, uncaught, localStorage, server, searchVars, calls, searchNet, appVars,
                 messages, lastUpdater, chatNet, serverMessages>>

NextChat ==
  \/ \E c \in Conversations : selectConversation(c)
  \/ \E r \in RequestSlots : loadMessages(r)
  \/ \E r \in RequestSlots : serverListsMessages(r)
  \/ \E r \in RequestSlots : loadMessagesResponse(r)
  \/ \E r \in RequestSlots : requestFails(r)
  \/ \E r \in RequestSlots : sendMessage(r)
  \/ \E r \in RequestSlots, withMessage \in BOOLEAN : serverStoresMessage(r, withMessage)
  \/ \E r \in RequestSlots : sendMessageResponse(r)
  \/ \E c \in Conversations : otherUserSends(c)
  \/ \E r \in RequestSlots, t \in timeouts : timeoutFires(r, t)
  \/ leaveChat

\* the Chat page is open on /chat, nothing cached, nothing said yet
InitChat ==
  /\ page = "chat"
  /\ navigation = ""
  /\ uncaught = "none"
  /\ localStorage = SignedInStorage
  /\ server = [itineraries |-> {}, lastId |-> 0,
               titles |-> [i \in ItineraryIds |-> NoListed]]
  /\ InitSearchState
  /\ InitApp
  /\ calls = [s \in CallSlots |-> IdleCall]
  /\ searchCalls = [k \in SearchSlots |-> IdleSearch]
  /\ searchTimers = <<>>
  /\ InitChatIdle

SpecChat == InitChat /\ [][NextChat]_vars

----------------------------------------------------------------------------
(* Polling over the life of the Chat component: conversations are selected, *)
(* the page is left and opened again, the timers fire, the polls are answered *)

NextPolling ==
  \/ \E c \in Conversations : selectConversation(c)
  \/ \E r \in RequestSlots : loadMessages(r)
  \/ \E r \in RequestSlots : serverListsMessages(r)
  \/ \E r \in RequestSlots : loadMessagesResponse(r)
  \/ \E r \in RequestSlots : requestFails(r)
  \/ \E r \in RequestSlots, t \in timeouts : timeoutFires(r, t)
  \/ leaveChat
  \/ \E c \in 0..MaxConversations : openChat(c)

\* the Chat page is open on /chat; every conversation holds one message of the
\* other party
InitPolling ==
  /\ page = "chat"
  /\ navigation = ""
  /\ uncaught = "none"
  /\ localStorage = SignedInStorage
  /\ server = [itineraries |-> {}, lastId |-> 0,
               titles |-> [i \in ItineraryIds |-> NoListed]]
  /\ InitSearchState
  /\ InitApp
  /\ calls = [s \in CallSlots |-> IdleCall]
  /\ searchCalls = [k \in SearchSlots |-> IdleSearch]
  /\ searchTimers = <<>>
  /\ selectedConversation = 0
  /\ messages = <<>>
  /\ lastUpdater = "none"
  /\ chatNet = [r \in RequestSlots |-> IdleRequest]
  /\ timeouts = {}
  /\ serverMessages = [c \in Conversations |-> <<[message_id |-> c, sender_id |-> 2]>>]

SpecPolling == InitPolling /\ [][NextPolling]_vars

----------------------------------------------------------------------------
(* Properties of the checkout *)

StoredText == localStorage.planit_pending_items

GenericFailures == {"Failed to create itinerary", "Failed to save items"}

\* msg is surfaced: the server's message, else a generic fallback
Surfaced(msg, text) == IF msg # "" THEN text = msg ELSE text \in GenericFailures

\* C1: a checkout that fails - at the creation request, at the save request, or
\* on reading the cached itinerary before either - leaves the stored pending
\* items and the pending list in memory as they were, and sets the error (the
\* server's msg, else a generic fallback) on the mounted page.
C1_FailedCheckoutKeepsPending ==
  [][/\ \A s \in CallSlots, msg \in ServerMsgs :
          (createFails(s, msg) \/ saveFails(s, msg)) =>
             /\ StoredText' = StoredText
             /\ pendingItems' = pendingItems
             /\ ~calls[s].stale => Surfaced(msg, error') /\ ~adding'
     /\ \A s \in CallSlots :
          (handleSaveAllToItinerary(s) /\ pendingItems # <<>> /\ calls' = calls) =>
             /\ StoredText' = StoredText
             /\ pendingItems' = pendingItems
             /\ error' \in GenericFailures
    ]_vars

\* a failed creation has been reported and the pending set is still there
C1_Witness ==
  /\ error = "Failed to create itinerary"
  /\ pendingItems # <<>>
  /\ StoredText = JSONstringifyArray(pendingItems)
  /\ ~adding

\* C2: when the save request for itinerary X succeeds, the saved-data cache of
\* X holds the server's response, the pending-items key is deleted, the cached
\* current itinerary is deleted, and success is reported: the page is sent to
\* the itinerary and, while mounted, shows the success message.
C2_SuccessfulCheckoutClears ==
  [][\A s \in CallSlots, data \in SaveResponses :
        saveSucceeds(s, data) =>
          LET X == calls[s].itineraryId
              saved == localStorage'.saved[X]
          IN /\ IsObjectText(saved)
             /\ JSONparseObject(saved).total = data.total
             /\ JSONparseObject(saved).itinerary_id = X
             /\ StoredText' = Null
             /\ localStorage'.planit_current_itinerary = Null
             /\ navigation' = "itinerary"
             /\ ~calls[s].stale =>
                  /\ successMessage' = "All items saved to itinerary!"
                  /\ pendingItems' = <<>>
                  /\ currentItinerary' = NoItinerary
    ]_vars

C2_Witness ==
  /\ successMessage = "All items saved to itinerary!"
  /\ navigation = "itinerary"
  /\ \E X \in ItineraryIds : localStorage.saved[X] # Null
  /\ StoredText = Null

\* C3: a checkout called with an empty pending list issues no request, changes
\* nothing that is stored, and reports 'No pending items to save'.
C3_EmptyCheckoutIsNoOp ==
  [][\A s \in CallSlots :
        (handleSaveAllToItinerary(s) /\ pendingItems = <<>>) =>
          /\ error' = "No pending items to save"
          /\ calls' = calls
          /\ localStorage' = localStorage
          /\ server' = server
          /\ navigation' = navigation
    ]_vars

\* the second call came directly after a successful checkout
C3_Witness ==
  /\ error = "No pending items to save"
  /\ successMessage = "All items saved to itinerary!"
  /\ navigation = "itinerary"
  /\ StoredText = Null
  /\ \A s \in CallSlots : calls[s].pc = "idle"

\* C6: text under the pending-items key or the current-itinerary key that does
\* not parse is read as empty/absent and no exception escapes.
C6_MalformedCacheNeverFatal ==
  /\ uncaught # "SyntaxError"
  /\ page # "crashed"

IsPrefix(a, b) == Len(a) <= Len(b) /\ SubSeq(b, 1, Len(a)) = a

\* C7: stored pending items are removed or replaced only by the user's removal
\* (Remove, Clear All) or by a successful checkout.
C7_PendingLeavesOnlyByRemovalOrCheckout ==
  [][\/ \E index \in 0..MaxPending : removePendingItem(index)
     \/ clearAll
     \/ \E s \in CallSlots, data \in SaveResponses : saveSucceeds(s, data)
     \/ LET before == getPendingItems(localStorage)
            after == getPendingItems(localStorage')
        IN before.ok => after.ok /\ IsPrefix(before.value, after.value)
    ]_vars

----------------------------------------------------------------------------
(* Properties of pricing and of the pending-item store *)

\* the pending items that go into the 'items' part of the payload, in order
NonFlights(items) == SelectSeq2(items, FALSE)

\* a checkout of the mounted page submits its save request in this step
Submits(s) == handleSaveAllToItinerary(s) /\ FreeSlot(s) /\ calls'[s].pc = "save"

\* C4 as stated: a checkout submits each hotel item that carries a per-night
\* price p with price p * n, n the nights of the stay at the checkout.
C4_CheckoutPriceIsPerNightTimesNights ==
  [][\A s \in CallSlots :
        Submits(s) =>
          LET nf == NonFlights(pendingItems)
              sent == calls'[s].payload.items
          IN \A i \in 1..Len(nf) :
               (nf[i].type = "hotel" /\ nf[i].data.price_per_night # 0) =>
                  sent[i].price = nf[i].data.price_per_night * computeNights(checkIn, checkOut)
    ]_vars

\* C4 amended: the nights are those of the dates entered when the item is
\* added: adding a hotel with per-night price p stores estimated_cost p * n, and
\* a checkout submits each stored hotel item with its stored estimated_cost.
C4_PriceIsPerNightTimesNightsAtAdd ==
  [][/\ (handleAddToLocalStorage /\ searchType = "hotels"
           /\ selectedItem.price_per_night # 0) =>
          LET stored == getPendingItems(localStorage').value
              added == stored[Len(stored)]
          IN /\ Len(stored) = Len(getPendingItems(localStorage).value) + 1
             /\ pendingItems' = stored
             /\ added.type = "hotel"
             /\ added.data.estimated_cost =
                  selectedItem.price_per_night * computeNights(checkIn, checkOut)
     /\ \A s \in CallSlots :
          Submits(s) =>
            LET nf == NonFlights(pendingItems)
                sent == calls'[s].payload.items
            IN /\ Len(sent) = Len(nf)
               /\ \A i \in 1..Len(nf) :
                    (nf[i].type = "hotel" /\ nf[i].data.estimated_cost # 0) =>
                       sent[i].price = nf[i].data.estimated_cost
    ]_vars

\* a hotel of 100 per night, added for the longest stay, is being submitted
C4_Witness ==
  \E s \in CallSlots :
    /\ calls[s].pc = "save"
    /\ checkIn = 1 /\ checkOut = MaxDay
    /\ \E i \in 1..Len(calls[s].payload.items) :
         /\ calls[s].payload.items[i].type = "hotel"
         /\ calls[s].payload.items[i].price = 100 * (MaxDay - 1)
         /\ calls[s].pendingItems[i].data.price_per_night = 100

RoundTripItems == {PendingItem("hotel", HotelPriced), PendingItem("attraction", AttractionPriced),
                   FlightItem}

\* the store after item is added to ls and removed again by its position
RoundTrip(ls, item) ==
  LET added == addPendingItem(ls, item)
  IN removePendingItemStore(added, Len(getPendingItems(added).value) - 1)

\* C5 as stated: from every store state, the never-written one included, adding
\* an item and removing it by its position leaves the text under the key equal.
C5_RoundTripKeepsSerializedContent ==
  \A item \in RoundTripItems :
    getPendingItems(localStorage).ok =>
      RoundTrip(localStorage, item).planit_pending_items = StoredText

\* C5 amended: from a store that holds a written list the text under the key is
\* equal after the round trip; from the never-written store it is the text of
\* the empty list, which reads as the same list.
C5_RoundTripKeepsWrittenContent ==
  \A item \in RoundTripItems :
    getPendingItems(localStorage).ok =>
      LET after == RoundTrip(localStorage, item)
      IN /\ getPendingItems(after) = getPendingItems(localStorage)
         /\ StoredText # Null => after.planit_pending_items = StoredText
         /\ StoredText = Null => after.planit_pending_items = JSONstringifyArray(<<>>)
         /\ after = [localStorage EXCEPT !.planit_pending_items = after.planit_pending_items]

\* the page has added items and removed them again, down to the empty list
C5_Witness ==
  /\ StoredText = JSONstringifyArray(<<>>)
  /\ pendingItems = <<>>
  /\ successMessage \in {removedMessage("hotel"), removedMessage("attraction")}

----------------------------------------------------------------------------
(* Properties of the chat *)

NoDuplicateIds(list) ==
  \A i, j \in 1..Len(list) : list[i].message_id = list[j].message_id => i = j

\* the poll response in slot r is applied to the held list in this step, by a
\* mounted Chat
Applies(r) == loadMessagesResponse(r) /\ ~chatNet[r].stale

\* C8: when the poll response holds exactly the message ids held locally, the
\* updater returns the previous list itself and the state is not replaced.
C8_SameIdsKeepPrev ==
  [][\A r \in RequestSlots :
        (/\ Applies(r)
         /\ NoDuplicateIds(chatNet[r].messages)
         /\ existingIds(chatNet[r].messages) = existingIds(messages)) =>
          /\ lastUpdater' = "loadMessages:prev"
          /\ messages' = messages
    ]_vars

\* two messages are held and a poll that brought the same two was skipped
C8_Witness ==
  /\ lastUpdater = "loadMessages:prev"
  /\ Len(messages) = 2
  /\ selectedConversation # 0
  /\ messages = serverMessages[selectedConversation]

\* C9 as stated: a poll response replaces the held list only if it brings a
\* message id not held; with no new id the update is skipped.
C9_ReplacedOnlyByNewIds ==
  [][\A r \in RequestSlots :
        (Applies(r) /\ existingIds(chatNet[r].messages) \subseteq existingIds(messages)) =>
          /\ lastUpdater' = "loadMessages:prev"
          /\ messages' = messages
    ]_vars

\* C9 amended: a poll response replaces the held list exactly when it brings an
\* id not held or its length differs from the held list's; with no new id and
\* the same length the update is skipped.
C9_ReplacedByNewIdsOrOtherLength ==
  [][\A r \in RequestSlots :
        Applies(r) =>
          LET fetched == chatNet[r].messages
              newId == ~(existingIds(fetched) \subseteq existingIds(messages))
          IN IF newId \/ Len(fetched) # Len(messages)
             THEN lastUpdater' = "loadMessages:newMessages" /\ messages' = fetched
             ELSE lastUpdater' = "loadMessages:prev" /\ messages' = messages
    ]_vars

\* a poll answered before a message was sent has replaced the list that held
\* the sent message: nothing new in it, shorter than what was held
C9_Witness ==
  /\ lastUpdater = "loadMessages:newMessages"
  /\ selectedConversation # 0
  /\ Len(messages) < Len(serverMessages[selectedConversation])
  /\ \A r \in RequestSlots : chatNet[r].phase = "idle"
  /\ \A c \in Conversations : c # selectedConversation => serverMessages[c] = <<>>
  /\ \A i \in 1..Len(serverMessages[selectedConversation]) :
       serverMessages[selectedConversation][i].sender_id = 1

\* C10: whatever the order of poll responses and send responses, no two held
\* messages have the same message_id.
C10_NoDuplicateMessageIds == NoDuplicateIds(messages)

\* the sent message had come in with a poll before the response to the send
C10_Witness ==
  /\ lastUpdater = "sendMessage:prev"
  /\ messages # <<>>
  /\ \E i \in 1..Len(messages) : messages[i].sender_id = 1

\* the response to the send in slot r is handled in this step, by a mounted Chat
HandlesSent(r) == sendMessageResponse(r) /\ ~chatNet[r].stale

\* the slot holds a fetch of conversation c that has just been issued
IsFetchOf(request, c) ==
  request.phase = "request" /\ request.kind = "get" /\ request.conversation = c

\* C11 as stated: when the response to a send carries the message, the message
\* is the last element of the held list at once; when it carries none, a
\* fetch of the messages is issued at once.
C11_SentMessageIsLast ==
  [][\A r \in RequestSlots :
        HandlesSent(r) =>
          IF chatNet[r].message # NoMessage
          THEN messages' # <<>> /\ messages'[Len(messages')] = chatNet[r].message
          ELSE IsFetchOf(chatNet'[r], chatNet[r].conversation)
    ]_vars

\* C11 amended: the message is in the held list at once: appended as the last
\* element, unless the list already holds its id (a poll brought it first) and
\* is then left as it is; a response without the message issues the fetch.
C11_SentMessageIsHeld ==
  [][\A r \in RequestSlots :
        HandlesSent(r) =>
          LET sent == chatNet[r].message
          IN IF sent = NoMessage
             THEN IsFetchOf(chatNet'[r], chatNet[r].conversation) /\ messages' = messages
             ELSE IF sent.message_id \in existingIds(messages)
             THEN messages' = messages
             ELSE messages' = Append(messages, sent)
    ]_vars

\* a sent message was appended behind a message held before
C11_Witness ==
  /\ lastUpdater = "sendMessage:appended"
  /\ Len(messages) >= 2
  /\ messages[Len(messages)].sender_id = 1
  /\ ChatMounted

\* C12: a fetch of messages is issued by a timer only for the conversation
\* that is selected, by the component that is mounted: none for a conversation
\* deselected or a component torn down.
C12_NoFetchAfterDeselection ==
  [][\A r \in RequestSlots :
        (chatNet[r].phase = "idle" /\ chatNet'[r].phase = "request"
           /\ chatNet'[r].kind = "get") =>
          /\ ChatMounted
          /\ ~chatNet'[r].stale
          /\ chatNet'[r].conversation = selectedConversation
    ]_vars

----------------------------------------------------------------------------
(* Search results *)

\* the answer body to the search in slot k is handled in this step, by a
\* mounted Search page
HandlesSearch(k, body) == searchResponse(k, body) /\ ~searchCalls[k].stale

\* C13: when the answer to an attractions search is displayed, every displayed
\* result comes from a raw entry that carries neither a per-night price nor an
\* address: the raw entries that carry one are excluded.
C13_HotelLikeEntriesExcluded ==
  [][\A k \in SearchSlots : \A body \in SearchBodies("attractions") :
        (searchCalls[k].type = "attractions" /\ body.shape = "array"
           /\ HandlesSearch(k, body)) =>
          \A j \in 1..Len(results') :
             \E i \in 1..Len(body.list) :
                /\ results'[j].title = body.list[i].title
                /\ results'[j].photo = body.list[i].photo
                /\ body.list[i].price_per_night = 0
                /\ body.list[i].address = ""
    ]_vars

\* of an answer with a museum and an entry with an address, the museum is shown
C13_Witness ==
  /\ Mounted
  /\ searchType = "attractions"
  /\ Len(results) = 1
  /\ results[1].name = RawMuseum.name
  /\ \A k \in SearchSlots : searchCalls[k].phase = "idle"

\* the error texts that tell the user the answer had an unexpected shape
UnexpectedDataErrors == {NoAttractionsFound}

\* C14 as stated: an answer without the expected array field leaves an
\* 'unexpected data' error, in either category.
C14_MissingArrayIsAnError ==
  [][\A k \in SearchSlots : \A type \in {"hotels", "attractions"} :
        (searchCalls[k].type = type
           /\ HandlesSearch(k, [shape |-> "noField", list |-> <<>>])) =>
          error' \in UnexpectedDataErrors
    ]_vars

\* a search as it was sent, its place among the searches in flight left out
SentAs(c) == [c EXCEPT !.order = 0, !.overtaken = FALSE]

\* C15: the step that handles a failed search leaves the results as they
\* were, shows the server's msg or else 'Search failed', and issues no search
\* and sets no timer.
C15_FailedSearchKeepsResults ==
  [][\A k \in SearchSlots : \A msg \in ServerMsgs :
        (searchFails(k, msg) /\ ~searchCalls[k].stale) =>
          /\ results' = results
          /\ error' = (IF msg # "" THEN msg ELSE "Search failed")
          /\ searchTimers' = searchTimers
          /\ \A j \in SearchSlots : searchCalls'[j].phase = "request" =>
                                      SentAs(searchCalls[j]) = SentAs(searchCalls'[j])
    ]_vars

\* a search failed without a msg while results of an earlier search were shown
C15_Witness ==
  /\ Mounted
  /\ error = "Search failed"
  /\ results # <<>>
  /\ ~loading
  /\ \A k \in SearchSlots : searchCalls[k].phase = "idle"

\* C16 as stated, for the Search button: with the query empty, or the hotels
\* tab without a check-in or a check-out date, handleSearch issues no request
\* and sets an error message.
C16_MissingFieldSetsError ==
  Mounted =>
    LET out == searchOutcome(searchType, query, checkIn, checkOut, currentItinerary)
        hasDates == /\ OrElse(checkIn, currentItinerary.departure_date) # 0
                    /\ OrElse(checkOut, currentItinerary.return_date) # 0
    IN (Trim(query) = "" \/ (searchType = "hotels" /\ ~hasDates)) =>
         ~out.request /\ out.setsError /\ out.error # ""

\* the images and the names an entry came with
Images(raw) == {raw.image, raw.thumbnail, raw.photo, raw.image_url} \ {""}
Names(raw) == {raw.name, raw.title} \ {<<>>}

\* shown is one of the images (names) the entry came with, if it came with any
CarriesImage(raw, shown) == IF Images(raw) = {} THEN shown = "" ELSE shown \in Images(raw)
CarriesName(raw, shown) == IF Names(raw) = {} THEN shown = <<>> ELSE shown \in Names(raw)

\* result is what is displayed of the entry raw: the fields no normalization
\* writes are the same
SameEntry(raw, result) ==
  /\ raw.title = result.title
  /\ raw.id = result.id
  /\ raw.hotel_key = result.hotel_key
  /\ raw.thumbnail = result.thumbnail
  /\ raw.photo = result.photo
  /\ raw.price = result.price
  /\ raw.rating = result.rating
  /\ raw.address = result.address

\* every displayed attraction has the image it came with in image_url (the
\* field the attraction card reads) and the name it came with in name
AttractionsCanonical(list, shown) ==
  \A j \in 1..Len(shown) :
     \E i \in 1..Len(list) :
        /\ SameEntry(list[i], shown[j])
        /\ CarriesImage(list[i], shown[j].image_url)
        /\ CarriesName(list[i], shown[j].name)

\* every hotel is displayed, with the image it came with in image (the field
\* the hotel card reads)
HotelsImageCanonical(list, shown) ==
  /\ Len(shown) = Len(list)
  /\ \A i \in 1..Len(list) :
        /\ SameEntry(list[i], shown[i])
        /\ CarriesImage(list[i], shown[i].image)

\* C17 as stated: the displayed results of an answer have the image they came
\* with in the field the card reads and the name they came with in name,
\* hotels and attractions alike.
C17_CanonicalImageAndName ==
  [][\A k \in SearchSlots : \A body \in AllSearchBodies :
        (body.shape = "array" /\ HandlesSearch(k, body)) =>
          IF searchCalls[k].type = "attractions"
          THEN AttractionsCanonical(body.list, results')
          ELSE /\ HotelsImageCanonical(body.list, results')
               /\ \A i \in 1..Len(body.list) : CarriesName(body.list[i], results'[i].name)
    ]_vars

\* C17 amended: the image as stated, for both; the name as stated for
\* attractions; a hotel keeps name and title as they came, and its card shows
\* name, else title, else 'Unknown Hotel'.
C17_CanonicalImageAndShownName ==
  [][\A k \in SearchSlots : \A body \in AllSearchBodies :
        (body.shape = "array" /\ HandlesSearch(k, body)) =>
          IF searchCalls[k].type = "attractions"
          THEN AttractionsCanonical(body.list, results')
          ELSE /\ HotelsImageCanonical(body.list, results')
               /\ \A i \in 1..Len(body.list) :
                     /\ results'[i].name = body.list[i].name
                     /\ IF Names(body.list[i]) = {}
                        THEN hotelCardTitle(results'[i]) = UnknownHotel
                        ELSE /\ hotelCardTitle(results'[i]) \in Names(body.list[i])
                             /\ body.list[i].name # <<>> =>
                                  hotelCardTitle(results'[i]) = body.list[i].name
    ]_vars

\* a hotel that came with a title and an image_url is displayed: its image is
\* set, its name is not
C17_Witness ==
  /\ Mounted
  /\ searchType = "hotels"
  /\ results # <<>>
  /\ results[1].title = RawHotelTitled.title
  /\ results[1].name = <<>>
  /\ results[1].image = RawHotelTitled.image_url

----------------------------------------------------------------------------
(* Nights and fallback prices *)

\* C18: a hotel of 100 per night is added at 100 times a whole number of
\* nights that is at least 1, and is 1 when a date is missing or the check-out
\* is not after the check-in.
C18_NightsAtLeastOne ==
  [][(/\ handleAddToLocalStorage
      /\ selectedItem = HotelPriced
      /\ searchType = "hotels"
      /\ Len(pendingItems') = Len(pendingItems) + 1) =>
        LET cost == pendingItems'[Len(pendingItems')].data.estimated_cost
            nights == cost \div HotelPriced.price_per_night
        IN /\ cost = nights * HotelPriced.price_per_night
           /\ nights >= 1
           /\ (checkIn = 0 \/ checkOut = 0 \/ checkOut <= checkIn) => nights = 1
    ]_vars

\* the hotel was added for one night with the check-out before the check-in
C18_Witness ==
  /\ Mounted
  /\ checkIn = MaxDay
  /\ checkOut = 1
  /\ successMessage = "Hotel added to pending items!"
  /\ pendingItems # <<>>
  /\ pendingItems[Len(pendingItems)].data.estimated_cost = HotelPriced.price_per_night

\* C19: every result without a price is added at a price within
\* FALLBACK_LOW..FALLBACK_HIGH (no dates are set: a hotel is added for one
\* night), whatever the sign of its hash.
C19_FallbackInRange ==
  \A i \in 1..Len(pendingItems) :
     /\ pendingItems[i].data.estimated_cost \in FALLBACK_LOW..FALLBACK_HIGH
     /\ pendingItems[i].data.price = pendingItems[i].data.estimated_cost

\* the result whose hash is the least 32-bit integer and the result whose hash
\* is negative are pending
C19_Witness ==
  /\ Len(pendingItems) = 2
  /\ djb2(5381, pendingItems[1].data.hotel_key) = MinInt32
  /\ djb2(5381, pendingItems[2].data.name) < 0
  /\ djb2(5381, pendingItems[2].data.name) > MinInt32

\* hotel_key || hotel_id || id || name || title of a pending item
Identifier(data) ==
  OrCodes(data.hotel_key, OrCodes(data.hotel_id, OrCodes(data.id,
    OrCodes(data.name, data.title))))

----------------------------------------------------------------------------
(* Default titles *)

\* the checkout of slot s asks for a new itinerary in this step
AsksToCreate(s) == handleSaveAllToItinerary(s) /\ FreeSlot(s) /\ calls'[s].pc = "create"

\* the itinerary of the list has the location in its title, or as its
\* destination, whatever the case of the letters
IsForLocation(listed, loc) ==
  \/ includes(toLowerCase(listed.title), toLowerCase(loc))
  \/ toLowerCase(listed.destination) = toLowerCase(loc)

\* C21: the title a checkout asks a new itinerary under is the title of the
\* current itinerary if it has one; else 'Trip to <location> <n>' if a location
\* is known (the itinerary's destination, else the query), n being 1 + the
\* number of listed itineraries for that location; else 'Itinerary <n>', n
\* being 1 + the number of listed itineraries.
C21_DefaultTitlePolicy ==
  [][\A s \in CallSlots :
        AsksToCreate(s) =>
          LET title == calls'[s].title
              loc == CharCodes(Trim(OrText(currentItinerary.destination, query)))
              forLocation == {id \in itineraries : IsForLocation(server.titles[id], loc)}
          IN IF currentItinerary.title # ""
             THEN title = CharCodes(currentItinerary.title)
             ELSE IF loc # <<>>
             THEN title = TripTo \o loc \o <<32>> \o Digits(1 + Cardinality(forLocation))
             ELSE title = ItineraryWord \o Digits(1 + Cardinality(itineraries))
    ]_vars

\* with 'Trip to Paris 1' listed and the location 'Paris', the new itinerary
\* was created as 'Trip to Paris 2'
C21_Witness ==
  /\ server.itineraries = {1, 2}
  /\ server.titles[1] = TripToParis1
  /\ server.titles[2].title = TripTo \o <<80, 97, 114, 105, 115, 32, 50>>

----------------------------------------------------------------------------
(* A cache that names a deleted itinerary *)

\* the id the cache names, 0 if it holds no itinerary
cachedId(ls) ==
  IF ls.planit_current_itinerary # Null /\ IsObjectText(ls.planit_current_itinerary)
  THEN JSONparseObject(ls.planit_current_itinerary).itinerary_id ELSE 0

\* the save of slot s, for an itinerary the backend no longer has, is refused
\* and the page that asked for it is told so
RefusedAsDeleted(s) ==
  /\ calls[s].pc = "save"
  /\ ~calls[s].stale
  /\ calls[s].itineraryId \notin server.itineraries
  /\ \E msg \in ServerMsgs : saveFails(s, msg)

\* C22: once a save has been refused because the backend no longer has the
\* itinerary the cache names, the client drops the cache and the selection:
\* the next checkout does not target the deleted itinerary again.
C22_DeletedItineraryIsDropped ==
  [][\A s \in CallSlots :
        RefusedAsDeleted(s) =>
          /\ selectedItineraryId' # calls[s].itineraryId
          /\ cachedId(localStorage') # calls[s].itineraryId
    ]_vars

----------------------------------------------------------------------------
(* Two searches in flight *)

\* what an answer with a list shows
shownOf(type, body) ==
  IF type = "attractions" THEN notHotelLike(mapNormalizeAttraction(body.list))
  ELSE mapNormalizeHotel(body.list)

\* C23: when the answer of a search arrives after the answer of a search that
\* was issued later, it is displayed all the same: the displayed results are
\* those of the search issued earlier.
C23_EarlierSearchAnsweredLastIsShown ==
  [][\A k \in SearchSlots, body \in AllSearchBodies :
        (/\ searchResponse(k, body)
         /\ searchCalls[k].overtaken
         /\ ~searchCalls[k].stale
         /\ body.shape = "array")
        => results' = shownOf(searchCalls[k].type, body)
    ]_vars

\* the answer of the search issued later is displayed while the search issued
\* earlier, of the other tab, is still to be answered
C23_Witness ==
  /\ Mounted
  /\ \E k \in SearchSlots :
       /\ searchCalls[k].phase = "request"
       /\ searchCalls[k].overtaken
       /\ ~searchCalls[k].stale
       /\ searchCalls[k].type = "attractions"
  /\ searchType = "hotels"
  /\ results # <<>>
  /\ ~loading

----------------------------------------------------------------------------
(* The itinerary view after a checkout *)

\* the itinerary view is opened for id: ItineraryBuilder is mounted on it
Opens(id) ==
  /\ CommitNavigation
  /\ navigation = "itinerary"
  /\ page # "itinerary"
  /\ routeId = id

\* C24: when the itinerary view is opened for an itinerary a checkout was
\* saved to, it displays what that checkout stored for the itinerary (the
\* saved flights and items, the budget), whatever was checked out to other
\* itineraries since.
C24_ViewShowsWhatWasSavedForIt ==
  [][\A id \in ItineraryIds :
        (Opens(id) /\ localStorage.saved[id] # Null) =>
          LET persisted == JSONparseObject(localStorage.saved[id])
          IN /\ builder'.saved = persisted
             /\ builder'.budget = [shown |-> TRUE, total |-> persisted.total]
    ]_vars

----------------------------------------------------------------------------
(* A sent message and the polls around it *)

Elements(list) == {list[i] : i \in 1..Len(list)}

\* the messages of the user that the list holds and the backend stores under
\* conversation c
OwnHeld(c) == {m \in Elements(messages) : m.sender_id = 1 /\ m \in Elements(serverMessages[c])}

\* the answer of a poll of the selected conversation is handled
AppliesPollOfSelected(r) ==
  /\ Applies(r)
  /\ chatNet[r].conversation = selectedConversation

\* C25 as stated: a message of the user that the list holds is still in the
\* list after the answer of any poll of its conversation is handled.
C25_SentMessageStays ==
  [][\A r \in RequestSlots :
        AppliesPollOfSelected(r) =>
          \A m \in OwnHeld(selectedConversation) : m \in Elements(messages')
    ]_vars

\* C25 amended: it is still in the list exactly when the answer holds it, i.e.
\* when the backend answered the poll after it had stored the message; an
\* answer made before, handled after the append, takes the message away.
C25_SentMessageStaysIfAnswerHoldsIt ==
  [][\A r \in RequestSlots :
        AppliesPollOfSelected(r) =>
          \A m \in OwnHeld(selectedConversation) :
            m \in Elements(messages') <=> m \in Elements(chatNet[r].messages)
    ]_vars

\* the sent message has been appended while the answer of a poll of the
\* conversation, made before the message was stored, is on its way
C25_Witness ==
  /\ ChatMounted
  /\ lastUpdater = "sendMessage:appended"
  /\ messages # <<>>
  /\ messages[Len(messages)] \in OwnHeld(selectedConversation)
  /\ \E r \in RequestSlots :
       /\ chatNet[r].phase = "response"
       /\ chatNet[r].kind = "get"
       /\ ~chatNet[r].stale
       /\ chatNet[r].conversation = selectedConversation
       /\ messages[Len(messages)] \notin Elements(chatNet[r].messages)

----------------------------------------------------------------------------
(* The list and the selected conversation *)

\* C26: while a conversation is selected, every message of the displayed list
\* is a message of that conversation.
C26_OnlyMessagesOfSelected ==
  (ChatMounted /\ selectedConversation # 0) =>
    \A m \in Elements(messages) : m \in Elements(serverMessages[selectedConversation])

----------------------------------------------------------------------------
(* One checkout at a time *)

\* C27: while a checkout is in progress on the page (adding is true), no step
\* starts another one.
C27_NoSecondCheckoutWhileAdding ==
  [][adding =>
       \A s \in CheckoutSlots : calls[s].pc = "idle" => calls'[s].pc = "idle"
    ]_vars

----------------------------------------------------------------------------
(* Retrying a checkout *)

\* the checkout of slot s issues a request in this step
Starts(s) == handleSaveAllToItinerary(s) /\ calls[s].pc = "idle" /\ calls'[s].pc # "idle"

----------------------------------------------------------------------------
(* Logging out *)

LoggedOut ==
  /\ user = 0
  /\ localStorage.access_token = Null
  /\ localStorage.user = Null

\* C29: logout leaves the session logged out (no user, no token and no cached
\* profile in storage), and a logged-out session stays so in every step that
\* is not a successful login, the answer of the mount-time /auth/me included.
C29_LogoutHolds ==
  /\ [][(logout \/ handleLogout) => LoggedOut']_vars
  /\ [][(LoggedOut /\ ~\E u \in Users : loginSucceeds(u)) => LoggedOut']_vars

----------------------------------------------------------------------------
(* Adding to a selected itinerary *)

PendingStore == localStorage.planit_pending_items

\* the request of slot s is sent in this step
SendsAdd(s) == handleAddToItinerary(s) /\ calls[s].pc = "idle" /\ calls'[s].pc = "add"

\* C30: an add to a selected itinerary leaves the pending store alone when the
\* request is sent and when it fails, and when it succeeds it appends one
\* pending item whose estimated_cost is the estimated_cost the request carried.
C30_MirrorCarriesTheRequestedCost ==
  [][\A s \in CallSlots :
       /\ SendsAdd(s) => PendingStore' = PendingStore
       /\ (\E msg \in ServerMsgs : addItemFails(s, msg)) => PendingStore' = PendingStore
       /\ addItemSucceeds(s) =>
            LET before == getPendingItems(localStorage).value
                after == getPendingItems(localStorage').value
            IN /\ Len(after) = Len(before) + 1
               /\ SubSeq(after, 1, Len(before)) = before
               /\ after[Len(after)].data.estimated_cost = calls[s].estimated_cost
    ]_vars

====
